---------------------------- MODULE Spec2Model ----------------------------
(***************************************************************************)
(* A model of mywhoosh2garmin: the FIT activity corrector (fitfix.go), the *)
(* file-version selection (fitfix.go), the Garmin token cache and client   *)
(* (package garmin) and the sync run of the GUI (main.go).                 *)
(*                                                                         *)
(* The module holds several specifications over one set of variables; the  *)
(* variables a specification does not use stay at their idle value.        *)
(*   SpecFix   fixFitFile applied to a source file and to its own output   *)
(*   SpecVer   findMostRecentFitFile applied to a directory listing        *)
(*   SpecSync  sync runs: scan, session, file loop, UploadFIT, refresh;    *)
(*             the login handshake taken as one exchange                   *)
(*   SpecLogin the login handshake of a sync run, request by request       *)
(*   SpecUpload one call of Client.UploadFIT on a client of any kind        *)
(*   SpecRuns  the sync runs of SpecSync from one starting point, with the *)
(*             record of what Garmin Connect holds (onGarmin); SpecSync    *)
(*             does not keep that record, nor the record of the taps a run *)
(*             ignored (ignoredTap)                                        *)
(*   SpecRunsFair  SpecRuns with weak fairness of the goroutine's steps    *)
(*             that are bound to end                                       *)
(***************************************************************************)
EXTENDS Integers, Sequences, FiniteSets, TLC

VARIABLES
    \* ---- fitfix.go: fixFitFile ----
    srcFile,    \* content of the source .fit file (never written by fixFitFile)
    outFile,    \* content of the output path of the last fixFitFile call
    fixErr,     \* what the last fixFitFile call returned ("none" before any call)
    fixIn,      \* history: the content fixFitFile read in its last call
    fixSrc,     \* history: which path that call read, "source" or "output"
    \* ---- fitfix.go: findMostRecentFitFile ----
    verMatches, \* the glob result: per file, the digit runs of its base name
    verRet,     \* what the last call returned: "none" (no call), "nil", "err"
    verPick,    \* the index in verMatches of the path it returned (0: none)
    \* ---- the world of a sync run ----
    now,          \* the wall clock, in seconds (time.Now().Unix())
    mtime,        \* the *.fit files of the MyWhoosh directory: modification times
    marked,       \* the files that have a .synced marker next to them
    cache1,       \* oauth1_token.json of the token directory (0: no file)
    cache2,       \* oauth2_token.json of the token directory (or no file)
    \* ---- main.go: the sync button and its goroutine ----
    syncing,      \* the syncing flag
    pc,           \* where the goroutine of the sync run is ("idle": none)
    files,        \* the run's list of unsynced files
    fileIdx,          \* the position of the file loop in files (1-based)
    success,      \* the run's count of uploaded files
    skipped,      \* the run's count of skipped files
    authErr,      \* what the last Resume or Login call returned
    \* ---- garmin.Client ----
    clientOAuth1, \* c.OAuth1 (0: nil)
    clientOAuth2, \* c.OAuth2 (or nil)
    upErr,        \* what the last UploadFIT call returned
    \* ---- history ----
    log,          \* the network exchanges of the current call into package garmin
    \* ---- what a run leaves outside the program ----
    lastLine,     \* the line appendLog wrote last when the latest run ended
                  \* ("none" while a run is in progress and before the first)
    onGarmin,     \* the files whose activity Garmin Connect holds
    \* ---- garmin.ssoSession of the Login call in progress ----
    lastURL,      \* s.lastURL (<<>>: the empty string)
    ssoLog,       \* history: the requests sent through the session
    \* ---- Client.doUpload ----
    sentTok,      \* the token in the Authorization header of the upload request
                  \* sent last in the UploadFIT call in progress (or none)
    \* ---- main.go: the goroutines of the sync button and the button ----
    running,      \* how many goroutines started by a tap have not returned
    btnDisabled,  \* the sync button is disabled
    ignoredTap    \* a tap has found the latest run in progress and returned

fixVars == <<srcFile, outFile, fixErr, fixIn, fixSrc>>
verVars == <<verMatches, verRet, verPick>>
worldVars == <<now, mtime, marked, cache1, cache2>>
runVars == <<syncing, pc, files, fileIdx, success, skipped, authErr>>
clientVars == <<clientOAuth1, clientOAuth2, upErr>>
histVars == <<log>>
outVars == <<lastLine, onGarmin>>
ssoVars == <<lastURL, ssoLog>>
upVars == <<sentTok>>
btnVars == <<running, btnDisabled>>
tapVars == <<ignoredTap>>
syncVars == <<worldVars, runVars, clientVars, histVars, outVars, ssoVars, upVars, btnVars, tapVars>>

vars == <<fixVars, verVars, syncVars>>

(***************************************************************************)
(* Bounds of the model.                                                    *)
(***************************************************************************)
MaxRecords == 2
MaxSessions == 2
MaxDevices == 2
MaxMatches == 3
MaxParts == 2
MaxFiles == 2
MaxTicks == 1

(***************************************************************************)
(* fitfix.go: sentinels and the spoof identity.                            *)
(***************************************************************************)
uint8Invalid == 255
uint16Invalid == 65535
sint8Invalid == 127

garminManufacturer == 1
fenix6sProduct == 3288
\* uint32(3420897194) as its two 16-bit halves <<high, low>>:
\* 52198 * 65536 + 49066 = 3420897194.
fakeSerialNumber == <<52198, 49066>>

None == "none"

(***************************************************************************)
(* The decoded data model (filedef.Activity): the fields the corrector      *)
(* reads or writes, and of the ones it does not touch a record's           *)
(* timestamp, a session's start time and sport, and the laps.  Slices hold pointers (the tests append      *)
(* mesgdef.NewRecord(nil), mesgdef.NewSession(nil)), so a range loop       *)
(* updates the elements in place.                                          *)
(***************************************************************************)
Rec(ts, p, h, c, t) ==
    [timestamp |-> ts, power |-> p, heartRate |-> h, cadence |-> c, temperature |-> t]
Ses(st, sp, p, h, c) ==
    [startTime |-> st, sport |-> sp, avgPower |-> p, avgHeartRate |-> h, avgCadence |-> c]
Ident(m, p, s) == [manufacturer |-> m, product |-> p, serialNumber |-> s]

\* Record samples the model draws from.
RecordVals ==
    { Rec(10, 200, 150, 90, 25),          \* the test's record
      Rec(11, 65535, 255, 255, 127),      \* every channel absent
      Rec(12, 0, 0, 0, 0),                \* real samples of value zero
      Rec(13, 65533, 254, 253, -128),     \* large real samples
      Rec(14, 65535, 151, 255, 25) }      \* only the heart rate present

\* Session summaries the model draws from.
SessionVals ==
    { Ses(10, "cycling", 65535, 0, 255),  \* averages absent (sentinel, zero, sentinel)
      Ses(13, "cycling", 0, 255, 0),      \* averages absent (zero, sentinel, zero)
      Ses(10, "running", 180, 140, 85) }  \* averages already valid

\* Identities the model draws from: a development device, another vendor's
\* device, and the spoof identity itself.
IdentityVals ==
    { Ident(255, 0, <<0, 0>>),
      Ident(32, 7, <<1, 2>>) }

SeqsUpTo(S, n) == UNION { [1..k -> S] : k \in 0..n }

\* The laps of the activities the model draws from.
LapVals == <<[totalElapsedTime |-> 60, avgPower |-> 65535]>>

\* The protocol version of a file's header: proto.V2, and 1 for proto.V1.
protoV2 == 2
ProtocolVals == {1, protoV2}

Activities ==
    [ fileId : IdentityVals,
      deviceInfos : SeqsUpTo(IdentityVals, MaxDevices),
      records : SeqsUpTo(RecordVals, MaxRecords),
      sessions : SeqsUpTo(SessionVals, MaxSessions),
      laps : {LapVals} ]

\* The activities drawn with either protocol version: the ones with at most
\* one record, one session and one device entry.
ShortActivities ==
    {a \in Activities :
        Len(a.records) <= 1 /\ Len(a.sessions) <= 1 /\ Len(a.deviceInfos) <= 1}

\* What a path can hold: no file, an activity, a FIT file of another type, or
\* bytes the decoder rejects.  act and protocol are meaningful for kind
\* "activity" only.
NoActivity ==
    [ fileId |-> Ident(0, 0, <<0, 0>>), deviceInfos |-> <<>>,
      records |-> <<>>, sessions |-> <<>>, laps |-> <<>> ]
ActivityFile(a, v) == [kind |-> "activity", act |-> a, protocol |-> v]
OtherFile(k) == [kind |-> k, act |-> NoActivity, protocol |-> 0]
NoFile == OtherFile("none")
NotActivity == OtherFile("not_activity")
Corrupt == OtherFile("corrupt")
IsActivity(f) == f.kind = "activity"

(***************************************************************************)
(* fitfix.go: the corrector.                                               *)
(***************************************************************************)
\* Mutant: the sentinel test inverted.
shouldFixU16Inverted(v) == v # uint16Invalid \/ v = 0

shouldFixU16(v) == v = uint16Invalid \/ v = 0
shouldFixU8(v) == v = uint8Invalid \/ v = 0

RECURSIVE SumSeq(_)
SumSeq(vals) == IF vals = <<>> THEN 0 ELSE vals[1] + SumSeq(Tail(vals))

\* The accumulator is a uint64: it holds the exact sum of n samples of at
\* most 0xFFFF for every n below 2^48, so the sum is modelled exactly; the
\* result is converted to the field's width.
\* Mutant: the sum kept in a uint16 accumulator.
avgU16Narrow(vals) == ((SumSeq(vals) % 65536) \div Len(vals)) % 65536

avgU16(vals) == (SumSeq(vals) \div Len(vals)) % 65536
avgU8(vals) == (SumSeq(vals) \div Len(vals)) % 256

\* The three sample pools built by the record loop, in record order.
RECURSIVE CollectPowers(_)
CollectPowers(recs) ==
    IF recs = <<>> THEN <<>>
    ELSE (IF recs[1].power # uint16Invalid THEN <<recs[1].power>> ELSE <<>>)
         \o CollectPowers(Tail(recs))

RECURSIVE CollectHeartRates(_)
CollectHeartRates(recs) ==
    IF recs = <<>> THEN <<>>
    ELSE (IF recs[1].heartRate # uint8Invalid THEN <<recs[1].heartRate>> ELSE <<>>)
         \o CollectHeartRates(Tail(recs))

RECURSIVE CollectCadences(_)
CollectCadences(recs) ==
    IF recs = <<>> THEN <<>>
    ELSE (IF recs[1].cadence # uint8Invalid THEN <<recs[1].cadence>> ELSE <<>>)
         \o CollectCadences(Tail(recs))

\* Mutant: the assignment placed inside the power branch of the loop body.
StripTemperatureIfPower(rec) ==
    IF rec.power # uint16Invalid THEN [rec EXCEPT !.temperature = sint8Invalid]
    ELSE rec

\* What the record loop writes to a record.
StripTemperature(rec) == [rec EXCEPT !.temperature = sint8Invalid]

\* Mutant: the record loop also rewrites an absent power sample as zero.
SanitizeRecordZeroAbsent(rec) ==
    [rec EXCEPT !.temperature = sint8Invalid,
                !.power = IF @ = uint16Invalid THEN 0 ELSE @]

SanitizeRecord(rec) == StripTemperature(rec)

\* What the session loop writes to a session, given the three pools.
FixSessionPower(sess, powers) ==
    IF shouldFixU16(sess.avgPower) /\ Len(powers) > 0
    THEN [sess EXCEPT !.avgPower = avgU16(powers)]
    ELSE sess

FixSessionHeartRate(sess, heartRates) ==
    IF shouldFixU8(sess.avgHeartRate) /\ Len(heartRates) > 0
    THEN [sess EXCEPT !.avgHeartRate = avgU8(heartRates)]
    ELSE sess

\* Mutant: the mean of an empty pool taken as 0.
FixSessionCadenceOfEmptyPool(sess, cadences) ==
    IF shouldFixU8(sess.avgCadence)
    THEN [sess EXCEPT !.avgCadence = IF Len(cadences) > 0 THEN avgU8(cadences) ELSE 0]
    ELSE sess

FixSessionCadence(sess, cadences) ==
    IF shouldFixU8(sess.avgCadence) /\ Len(cadences) > 0
    THEN [sess EXCEPT !.avgCadence = avgU8(cadences)]
    ELSE sess

FixSession(sess, powers, heartRates, cadences) ==
    FixSessionCadence(
        FixSessionHeartRate(FixSessionPower(sess, powers), heartRates),
        cadences)

SpoofIdentity(id) ==
    [id EXCEPT !.manufacturer = garminManufacturer,
               !.product = fenix6sProduct,
               !.serialNumber = fakeSerialNumber]

\* Mutant: the loop over the device entries left out.
spoofDeviceFileIdOnly(activity) ==
    [activity EXCEPT !.fileId = SpoofIdentity(@)]

spoofDevice(activity) ==
    [activity EXCEPT
        !.fileId = SpoofIdentity(@),
        !.deviceInfos = [i \in DOMAIN @ |-> SpoofIdentity(@[i])]]

\* Mutant: each session's pools are built from the records of its own time.
CorrectActivityTimeSliced(activity) ==
    LET RecordsFrom(t) == SelectSeq(activity.records, LAMBDA r : r.timestamp >= t)
    IN  spoofDevice(
            [activity EXCEPT
                !.records = [i \in DOMAIN @ |-> SanitizeRecord(@[i])],
                !.sessions = [i \in DOMAIN @ |->
                    FixSession(@[i],
                        CollectPowers(RecordsFrom(@[i].startTime)),
                        CollectHeartRates(RecordsFrom(@[i].startTime)),
                        CollectCadences(RecordsFrom(@[i].startTime)))]])

\* The in-memory part of fixFitFile: record loop, session loop, spoofDevice.
CorrectActivity(activity) ==
    LET powers == CollectPowers(activity.records)
        heartRates == CollectHeartRates(activity.records)
        cadences == CollectCadences(activity.records)
    IN  spoofDevice(
            [activity EXCEPT
                !.records = [i \in DOMAIN @ |-> SanitizeRecord(@[i])],
                !.sessions = [i \in DOMAIN @ |->
                                 FixSession(@[i], powers, heartRates, cadences)]])

(***************************************************************************)
(* fixFitFile(inputPath, outputPath) as one step.  src names the file      *)
(* given as input: the source file, or the output of an earlier call.      *)
(* The codec is an external library: a file's content is modelled as the   *)
(* typed activity it decodes to.                                           *)
(***************************************************************************)
FixInput(src) == IF src = "source" THEN srcFile ELSE outFile

\* decode fails, or the file is not an activity: nothing is written
FixFitFileRejected(src) ==
    /\ FixInput(src).kind \in {"not_activity", "corrupt"}
    /\ fixErr' = (IF FixInput(src).kind = "corrupt" THEN "decode" ELSE "not_activity")
    /\ fixIn' = FixInput(src)
    /\ fixSrc' = src
    /\ UNCHANGED <<srcFile, outFile>>

\* line 209: the encoder is made with WithProtocolVersion(proto.V2), whatever
\* file f was decoded
EncodedProtocol(f) == protoV2

\* the corrected activity is encoded to the output path
FixFitFileOk(src) ==
    /\ IsActivity(FixInput(src))
    /\ outFile' = ActivityFile(CorrectActivity(FixInput(src).act),
                               EncodedProtocol(FixInput(src)))
    /\ fixErr' = "nil"
    /\ fixIn' = FixInput(src)
    /\ fixSrc' = src
    /\ UNCHANGED srcFile

\* os.Create or the encoder fails: the output path holds no usable file
FixFitFileEncodeFails(src) ==
    /\ IsActivity(FixInput(src))
    /\ outFile' = Corrupt
    /\ fixErr' = "encode"
    /\ fixIn' = FixInput(src)
    /\ fixSrc' = src
    /\ UNCHANGED srcFile

FixFitFile ==
    \E src \in {"source", "output"} :
        /\ FixInput(src).kind # "none"
        /\ \/ FixFitFileRejected(src)
           \/ FixFitFileOk(src)
           \/ FixFitFileEncodeFails(src)

FixInit ==
    /\ srcFile \in {ActivityFile(a, protoV2) : a \in Activities}
                   \cup {ActivityFile(a, v) : a \in ShortActivities, v \in ProtocolVals}
                   \cup {NotActivity, Corrupt}
    /\ outFile = NoFile
    /\ fixErr = None
    /\ fixIn = NoFile
    /\ fixSrc = None

\* No file is being corrected.
FixIdle ==
    /\ srcFile = NoFile
    /\ outFile = NoFile
    /\ fixErr = None
    /\ fixIn = NoFile
    /\ fixSrc = None

(***************************************************************************)
(* fitfix.go: findMostRecentFitFile and cmpVersionParts.                   *)
(*                                                                         *)
(* A digit run found by the pattern \d+ is a non-empty tuple of digits.    *)
(* The values strconv.Atoi returns do not fit the model checker's          *)
(* integers, so a Go int that is not negative is modelled by its decimal   *)
(* digits without leading zeros, compared by length and then digit by      *)
(* digit.                                                                  *)
(***************************************************************************)
RECURSIVE StripZeros(_)
StripZeros(d) == IF Len(d) > 1 /\ d[1] = 0 THEN StripZeros(Tail(d)) ELSE d

\* The sign of x - y for two values given by their digits.
RECURSIVE CmpSameLen(_, _)
CmpSameLen(x, y) ==
    IF x = <<>> THEN 0
    ELSE IF x[1] # y[1] THEN (IF x[1] > y[1] THEN 1 ELSE -1)
    ELSE CmpSameLen(Tail(x), Tail(y))

CmpValue(x, y) ==
    IF Len(x) # Len(y) THEN (IF Len(x) > Len(y) THEN 1 ELSE -1)
    ELSE CmpSameLen(x, y)

\* math.MaxInt64 = 9223372036854775807 (the build targets are amd64).
MaxInt64 == <<9, 2, 2, 3, 3, 7, 2, 0, 3, 6, 8, 5, 4, 7, 7, 5, 8, 0, 7>>

\* strconv.Atoi on a digit run: its value, or MaxInt64 together with a range
\* error when the value does not fit an int.  cmpVersionParts drops the error.
Atoi(run) ==
    IF CmpValue(StripZeros(run), MaxInt64) > 0 THEN MaxInt64 ELSE StripZeros(run)

\* cmpVersionParts returns ai - bi at the first differing component; both are
\* in 0..MaxInt64, so the difference does not overflow and only its sign is
\* modelled.  Past the common length it returns len(a) - len(b).
RECURSIVE cmpVersionParts(_, _)
cmpVersionParts(a, b) ==
    IF a = <<>> \/ b = <<>> THEN Len(a) - Len(b)
    ELSE IF Atoi(a[1]) # Atoi(b[1]) THEN CmpValue(Atoi(a[1]), Atoi(b[1]))
    ELSE cmpVersionParts(Tail(a), Tail(b))

\* The less function handed to sort.Slice, on indices into the glob result.
VersionLess(i, j) == cmpVersionParts(verMatches[i], verMatches[j]) > 0

\* sort.Slice on fewer than 12 elements is an insertion sort: each element
\* moves left past the elements it is less than.
RECURSIVE InsertSorted(_, _)
InsertSorted(sorted, x) ==
    IF sorted = <<>> THEN <<x>>
    ELSE IF VersionLess(x, sorted[Len(sorted)])
         THEN Append(InsertSorted(SubSeq(sorted, 1, Len(sorted) - 1), x),
                     sorted[Len(sorted)])
         ELSE Append(sorted, x)

RECURSIVE SortSlice(_)
SortSlice(idx) ==
    IF idx = <<>> THEN <<>>
    ELSE InsertSorted(SortSlice(SubSeq(idx, 1, Len(idx) - 1)), idx[Len(idx)])

findMostRecentFitFile ==
    /\ verRet = None
    /\ IF Len(verMatches) = 0
       THEN /\ verRet' = "err"
            /\ verPick' = 0
       ELSE /\ verRet' = "nil"
            /\ verPick' = SortSlice([i \in 1..Len(verMatches) |-> i])[1]
    /\ UNCHANGED verMatches

\* Digit runs the model draws from: small numbers, a number written with a
\* leading zero, and the two numbers around the largest int.
DigitRunVals ==
    { <<3>>, <<0, 8>>, <<1, 0>>, MaxInt64,
      <<9, 2, 2, 3, 3, 7, 2, 0, 3, 6, 8, 5, 4, 7, 7, 5, 8, 0, 8>> }

VerInit ==
    /\ verMatches \in SeqsUpTo(SeqsUpTo(DigitRunVals, MaxParts), MaxMatches)
    /\ verRet = None
    /\ verPick = 0

\* No directory is being searched.
VerIdle ==
    /\ verMatches = <<>>
    /\ verRet = None
    /\ verPick = 0

(***************************************************************************)
(* The clock.  Times are seconds; the model starts at StartTime and        *)
(* follows the clock for MaxTicks seconds.                                 *)
(***************************************************************************)
ThirtyDays == 30 * 86400
StartTime == ThirtyDays + 10

Tick ==
    /\ now < StartTime + MaxTicks
    /\ now' = now + 1
    /\ UNCHANGED <<mtime, marked, cache1, cache2, runVars, clientVars, histVars>>
    /\ UNCHANGED <<outVars, ssoVars, upVars, btnVars, tapVars>>

(***************************************************************************)
(* garmin: tokens and the token cache.                                     *)
(* An OAuth1 token has no expiry the program looks at and is told from    *)
(* nil only (0: nil, 1: a token).  An OAuth2 token carries ExpiresIn and   *)
(* ExpiresAt, and, on the side, the time the exchange that produced it     *)
(* was answered.                                                           *)
(***************************************************************************)
OAuth2Token(d, at, rcv) ==
    [isNil |-> FALSE, expiresIn |-> d, expiresAt |-> at, receivedAt |-> rcv]
NoOAuth2 == [isNil |-> TRUE, expiresIn |-> 0, expiresAt |-> 0, receivedAt |-> 0]

\* OAuth2Token.Expired
Expired(t) == t.expiresAt < now

\* expires_in values the server answers with.
ExpiresInVals == {1, 2}

\* exchangeOAuth2 on a 200 response carrying expires_in = d: the token
\* stamped with the time of receipt.
exchangeOAuth2(d) == OAuth2Token(d, now + d, now)

\* Mutant: the OAuth2 document is not required.
LoadTokensOAuth1Only == cache1 # 0

\* LoadTokens: both documents or an error.
LoadTokensOk == cache1 # 0 /\ ~cache2.isNil

\* What an error message is made of: its kind, and whether its text holds
\* the word "duplicate" (main.go tests exactly that).  A message that quotes
\* a response body holds the word when the quoted text does.
Err(k, d) == [kind |-> k, dup |-> d]
Nil == Err("nil", FALSE)

\* Mutant: SaveTokens is handed c.OAuth1 too.
RefreshOkSavesBoth(d, saved) ==
    /\ clientOAuth2' = exchangeOAuth2(d)
    /\ cache2' = IF saved THEN exchangeOAuth2(d) ELSE cache2
    /\ cache1' = IF saved THEN clientOAuth1 ELSE cache1
    /\ UNCHANGED clientOAuth1

\* Client.refreshOAuth2, the exchange succeeding with expires_in = d; saved
\* says whether SaveTokens could write oauth2_token.json (its error is
\* dropped).  OAuth1 is handed to SaveTokens as nil and is not written.
RefreshOk(d, saved) ==
    /\ clientOAuth2' = exchangeOAuth2(d)
    /\ cache2' = IF saved THEN exchangeOAuth2(d) ELSE cache2
    /\ UNCHANGED <<clientOAuth1, cache1>>

\* Mutant: a failed exchange leaves the client without an OAuth2 token.
RefreshFailsDropsToken ==
    /\ clientOAuth2' = NoOAuth2
    /\ UNCHANGED <<clientOAuth1, cache1, cache2>>

\* Client.refreshOAuth2, ExchangeForOAuth2 returning an error.
RefreshFails ==
    UNCHANGED <<clientOAuth1, clientOAuth2, cache1, cache2>>

\* Mutant: the request is signed with the token of the cache file.
BearerOfCache(t) == cache2

\* doUpload line 514: the Authorization header is made from c.OAuth2 as it
\* is when the request is built
Bearer(t) == t

\* History records of one UploadFIT call.
RefreshEvent(ok) ==
    [ev |-> "refresh", ok |-> ok, status |-> 0, failures |-> FALSE, dup |-> FALSE]
UploadEvent(ok, resp) ==
    [ev |-> "upload", ok |-> ok, status |-> resp.status, failures |-> resp.failures,
     dup |-> resp.dup]

(***************************************************************************)
(* garmin: the upload responses.  failures: the body is JSON with a       *)
(* non-empty detailedImportResult.failures; dup: the part of the body an   *)
(* error message would quote (its first 300 bytes, or the failures list)   *)
(* holds the word "duplicate".                                             *)
(***************************************************************************)
Resp(st, f, d) == [status |-> st, failures |-> f, dup |-> d]
NoResp == Resp(0, FALSE, FALSE)

UploadResponses ==
    { Resp(200, FALSE, FALSE), Resp(200, TRUE, FALSE), Resp(200, TRUE, TRUE),
      Resp(304, FALSE, FALSE),
      Resp(401, FALSE, FALSE),
      Resp(409, FALSE, FALSE),
      Resp(500, FALSE, FALSE), Resp(500, FALSE, TRUE) }

\* Mutant: no case for 409.
parseUploadResultNo409(resp) ==
    IF resp.status >= 400 THEN Err("http", resp.dup)
    ELSE IF resp.failures THEN Err("failures", resp.dup)
    ELSE Nil

parseUploadResult(resp) ==
    IF resp.status = 409 THEN Err("duplicate", TRUE)
    ELSE IF resp.status >= 400 THEN Err("http", resp.dup)
    ELSE IF resp.failures THEN Err("failures", resp.dup)
    ELSE Nil

\* Mutant: a rejected retry is retried again.
AfterRetryResponseAgain(resp) ==
    IF resp.status = 401 THEN "up_retry_refresh" ELSE "up_done"

\* UploadFIT after the first response: refresh and retry on 401.
AfterFirstResponse(resp) ==
    IF resp.status = 401 THEN "up_retry_refresh" ELSE "up_done"

\* UploadFIT after the response to the retry: nothing more is sent.
AfterRetryResponse(resp) == "up_done"

(***************************************************************************)
(* Client.UploadFIT, one action per network exchange.                      *)
(***************************************************************************)
\* Mutant: the expiry is not looked at on entry.
AfterEntrySkipsExpiry(t) == IF t.isNil THEN "up_done" ELSE "up_request"

\* lines 442-451: where UploadFIT goes with c.OAuth2 = t
AfterEntry(t) ==
    IF t.isNil THEN "up_done"
    ELSE IF Expired(t) THEN "up_pre_refresh"
    ELSE "up_request"

\* lines 441-451 up to the first network exchange
UploadFITEntry ==
    /\ pc = "up_entry"
    /\ log' = <<>>
    /\ pc' = AfterEntry(clientOAuth2)
    /\ upErr' = IF clientOAuth2.isNil THEN Err("not_authenticated", FALSE) ELSE Nil
    /\ UNCHANGED <<worldVars, syncing, files, fileIdx, success, skipped, authErr,
                   clientOAuth1, clientOAuth2>>
    /\ UNCHANGED <<outVars, ssoVars, btnVars, tapVars>>
    /\ sentTok' = NoOAuth2

\* lines 447-451: the refresh of a token found expired
UploadFITPreRefresh ==
    /\ pc = "up_pre_refresh"
    /\ \/ \E d \in ExpiresInVals, saved \in BOOLEAN :
            /\ RefreshOk(d, saved)
            /\ log' = Append(log, RefreshEvent(TRUE))
            /\ pc' = "up_request"
            /\ UNCHANGED upErr
       \/ \E quoted \in BOOLEAN :
            /\ RefreshFails
            /\ log' = Append(log, RefreshEvent(FALSE))
            /\ pc' = "up_done"
            /\ upErr' = Err("refresh", quoted)
    /\ UNCHANGED <<now, mtime, marked, syncing, files, fileIdx, success, skipped, authErr>>
    /\ UNCHANGED <<outVars, ssoVars, upVars, btnVars, tapVars>>

\* lines 453-457: the first upload request.  doUpload may return an error
\* instead of a response; named: its text (it names the file or the URL)
\* holds the word "duplicate".
UploadFITRequest ==
    /\ pc = "up_request"
    /\ \/ \E resp \in UploadResponses :
            /\ log' = Append(log, UploadEvent(TRUE, resp))
            /\ pc' = AfterFirstResponse(resp)
            /\ upErr' = IF AfterFirstResponse(resp) = "up_done"
                        THEN parseUploadResult(resp) ELSE upErr
       \/ \E named \in BOOLEAN :
            /\ log' = Append(log, UploadEvent(FALSE, NoResp))
            /\ pc' = "up_done"
            /\ upErr' = Err("transport", named)
    /\ UNCHANGED <<worldVars, syncing, files, fileIdx, success, skipped, authErr,
                   clientOAuth1, clientOAuth2>>
    /\ UNCHANGED <<outVars, ssoVars, btnVars, tapVars>>
    /\ sentTok' = Bearer(clientOAuth2)

\* lines 460-464: the refresh after a 401
UploadFITRetryRefresh ==
    /\ pc = "up_retry_refresh"
    /\ \/ \E d \in ExpiresInVals, saved \in BOOLEAN :
            /\ RefreshOk(d, saved)
            /\ log' = Append(log, RefreshEvent(TRUE))
            /\ pc' = "up_retry"
            /\ UNCHANGED upErr
       \/ \E quoted \in BOOLEAN :
            /\ RefreshFails
            /\ log' = Append(log, RefreshEvent(FALSE))
            /\ pc' = "up_done"
            /\ upErr' = Err("refresh", quoted)
    /\ UNCHANGED <<now, mtime, marked, syncing, files, fileIdx, success, skipped, authErr>>
    /\ UNCHANGED <<outVars, ssoVars, upVars, btnVars, tapVars>>

\* lines 465-471: the retry
UploadFITRetry ==
    /\ pc = "up_retry"
    /\ \/ \E resp \in UploadResponses :
            /\ log' = Append(log, UploadEvent(TRUE, resp))
            /\ pc' = AfterRetryResponse(resp)
            /\ upErr' = IF AfterRetryResponse(resp) = "up_done"
                        THEN parseUploadResult(resp) ELSE upErr
       \/ \E named \in BOOLEAN :
            /\ log' = Append(log, UploadEvent(FALSE, NoResp))
            /\ pc' = "up_done"
            /\ upErr' = Err("transport", named)
    /\ UNCHANGED <<worldVars, syncing, files, fileIdx, success, skipped, authErr,
                   clientOAuth1, clientOAuth2>>
    /\ UNCHANGED <<outVars, ssoVars, btnVars, tapVars>>
    /\ sentTok' = Bearer(clientOAuth2)

(***************************************************************************)
(* fitfix.go: findUnsyncedFitFiles.  The files are named by 1..MaxFiles in *)
(* the order filepath.Glob lists them.                                     *)
(***************************************************************************)
FileIds == 1..MaxFiles

isSynced(f) == f \in marked

\* Mutant: the less function compares the other way round.
OlderThanNewestFirst(f, g) == mtime[f] > mtime[g]

\* sort.Slice's less function
OlderThan(f, g) == mtime[f] < mtime[g]

RECURSIVE InsertByMtime(_, _)
InsertByMtime(sorted, f) ==
    IF sorted = <<>> THEN <<f>>
    ELSE IF OlderThan(f, sorted[Len(sorted)])
         THEN Append(InsertByMtime(SubSeq(sorted, 1, Len(sorted) - 1), f),
                     sorted[Len(sorted)])
         ELSE Append(sorted, f)

RECURSIVE SortByMtime(_)
SortByMtime(fs) ==
    IF fs = <<>> THEN <<>>
    ELSE InsertByMtime(SortByMtime(SubSeq(fs, 1, Len(fs) - 1)), fs[Len(fs)])

findUnsyncedFitFiles ==
    LET cutoff == now - ThirtyDays
        keep(f) == ~(mtime[f] < cutoff) /\ ~isSynced(f)
    IN  SortByMtime(SelectSeq([f \in FileIds |-> f], keep))

\* Modification times the model draws from: older than 30 days at the
\* start, 30 days old one second after the start, and one second old.
MtimeVals == {StartTime - ThirtyDays - 1, StartTime - ThirtyDays + 1, StartTime - 1}

(***************************************************************************)
(* main.go: syncBtn.OnTapped and the goroutine it starts.                  *)
(***************************************************************************)
\* the deferred function of the goroutine (lines 138-141), its two
\* statements in one step; the run's locals are dropped
RunExit ==
    /\ pc' = "idle"
    /\ syncing' = FALSE
    /\ btnDisabled' = FALSE
    /\ running' = running - 1
    /\ UNCHANGED tapVars
    /\ files' = <<>>
    /\ fileIdx' = 0
    /\ success' = 0
    /\ skipped' = 0
    /\ clientOAuth1' = 0
    /\ clientOAuth2' = NoOAuth2
    /\ upErr' = Nil
    /\ authErr' = Nil
    /\ log' = <<>>

\* Mutant: the handler does not look at the flag.
AlreadySyncingNever == FALSE

\* lines 131-133: `if syncing { return }`
AlreadySyncing == syncing

\* lines 130-137: a tap; it starts a run unless one is in progress.  The
\* handler is taken to run whenever the button is tapped, whatever the
\* button's state.
OnTapped ==
    /\ IF AlreadySyncing
       THEN UNCHANGED <<syncing, pc, lastLine, btnVars>>
       ELSE /\ syncing' = TRUE
            /\ btnDisabled' = TRUE
            /\ running' = running + 1
            /\ pc' = "scan"
            /\ lastLine' = "none"
    /\ UNCHANGED <<worldVars, files, fileIdx, success, skipped, authErr, clientVars,
                   histVars, onGarmin>>
    /\ UNCHANGED <<ssoVars, upVars>>

\* What a tap leaves behind: whether the handler returned at line 132.
TapSeen == ignoredTap' = AlreadySyncing

\* lines 143-168: config, scan, NewClient.  dirSet: the directory field is
\* not empty; globOk: filepath.Glob accepts the pattern.
RunScan ==
    /\ pc = "scan"
    /\ \E dirSet \in BOOLEAN, globOk \in BOOLEAN :
          IF dirSet /\ globOk /\ findUnsyncedFitFiles # <<>>
          THEN /\ files' = findUnsyncedFitFiles
               /\ fileIdx' = 1
               /\ pc' = "resume"
               /\ UNCHANGED <<syncing, success, skipped, authErr, clientVars, log,
                              lastLine, btnVars, tapVars>>
          ELSE /\ RunExit
               /\ lastLine' = IF ~dirSet THEN "set_directory"
                              ELSE IF ~globOk THEN "scan_failed"
                              ELSE "all_synced"
    /\ UNCHANGED <<worldVars, onGarmin>>
    /\ UNCHANGED <<ssoVars, upVars>>

\* Mutant: Resume refreshes whatever the expiry.
AfterLoadAlwaysRefresh(t) == "resume_refresh"

\* Client.Resume lines 408-413: a token still valid ends Resume
AfterLoad(t) == IF Expired(t) THEN "resume_refresh" ELSE "resume_done"

\* Client.Resume up to its first network exchange (lines 391-413).
\* LoadTokens failing leaves the client as NewClient made it.
RunResume ==
    /\ pc = "resume"
    /\ IF LoadTokensOk
       THEN /\ clientOAuth1' = cache1
            /\ clientOAuth2' = cache2
            /\ pc' = AfterLoad(cache2)
            /\ authErr' = Nil
       ELSE /\ pc' = "resume_done"
            /\ authErr' = Err("no_cached_session", FALSE)
            /\ UNCHANGED <<clientOAuth1, clientOAuth2>>
    /\ UNCHANGED <<worldVars, syncing, files, fileIdx, success, skipped, upErr, histVars>>
    /\ UNCHANGED <<outVars, ssoVars, upVars, btnVars, tapVars>>

\* Client.Resume lines 414-417: the refresh of an expired cached token
RunResumeRefresh ==
    /\ pc = "resume_refresh"
    /\ \/ \E d \in ExpiresInVals, saved \in BOOLEAN :
            /\ RefreshOk(d, saved)
            /\ log' = Append(log, RefreshEvent(TRUE))
            /\ authErr' = Nil
       \/ /\ RefreshFails
          /\ log' = Append(log, RefreshEvent(FALSE))
          /\ authErr' = Err("refresh_failed", FALSE)
    /\ pc' = "resume_done"
    /\ UNCHANGED <<now, mtime, marked, syncing, files, fileIdx, success, skipped, upErr>>
    /\ UNCHANGED <<outVars, ssoVars, upVars, btnVars, tapVars>>

\* Mutant: without credentials the run goes on to the files.
AfterResumeNeedsNoSession(err, creds) ==
    IF err = Nil \/ ~creds THEN "loop" ELSE "login"

\* main.go lines 170-178: where the run goes when Resume has returned err
AfterResume(err, creds) ==
    IF err = Nil THEN "loop"
    ELSE IF creds THEN "login"
    ELSE "idle"

\* main.go lines 170-178: Resume has returned.  creds: the email and the
\* password field are both filled in.
RunResumed ==
    /\ pc = "resume_done"
    /\ \E creds \in BOOLEAN :
          IF AfterResume(authErr, creds) = "idle"
          THEN /\ RunExit
               /\ lastLine' = "enter_credentials"
          ELSE /\ pc' = AfterResume(authErr, creds)
               /\ authErr' = Nil
               /\ log' = <<>>
               /\ UNCHANGED <<syncing, files, fileIdx, success, skipped, clientVars,
                              lastLine, btnVars, tapVars>>
    /\ UNCHANGED <<worldVars, onGarmin>>
    /\ UNCHANGED <<ssoVars, upVars>>

\* Client.Login lines 427-436, garmin.Login having returned tokens with
\* expires_in = d.  saved1, saved2: SaveTokens could write the OAuth1 and the
\* OAuth2 document (it stops at the first failed write, and its error is
\* only printed).
ClientLoginOk(d, saved1, saved2) ==
    /\ clientOAuth1' = 1
    /\ clientOAuth2' = exchangeOAuth2(d)
    /\ cache1' = IF saved1 THEN 1 ELSE cache1
    /\ cache2' = IF saved1 /\ saved2 THEN exchangeOAuth2(d) ELSE cache2

\* main.go lines 179-184 and Client.Login, the handshake of garmin.Login
\* taken as one exchange: it fails and the run ends, or it returns tokens.
RunLogin ==
    /\ pc = "login"
    /\ \/ /\ RunExit
          /\ lastLine' = "login_failed"
          /\ UNCHANGED <<cache1, cache2>>
       \/ \E d \in ExpiresInVals, saved1 \in BOOLEAN, saved2 \in BOOLEAN :
            /\ ClientLoginOk(d, saved1, saved2)
            /\ pc' = "loop"
            /\ UNCHANGED <<syncing, files, fileIdx, success, skipped, authErr, upErr, log,
                           lastLine, btnVars, tapVars>>
    /\ UNCHANGED <<now, mtime, marked, onGarmin>>
    /\ UNCHANGED <<ssoVars, upVars>>

\* Mutant: the first file that fails ends the loop.
AfterFileStopsOnError(err) == IF err.kind = "nil" \/ err.dup THEN "loop" ELSE "loop_end"

\* lines 199, 212, 220: every path through the loop body goes on to the
\* next iteration
AfterFile(err) == "loop"

\* lines 191-201: the next file, corrected by fixFitFile (fixed: it returned
\* nil); line 222 when no file is left
RunNextFile ==
    /\ pc = "loop"
    /\ IF fileIdx > Len(files)
       THEN /\ RunExit
            /\ lastLine' = "sync_complete"
       ELSE \E fixed \in BOOLEAN :
              /\ IF fixed
                 THEN /\ pc' = "up_entry"
                      /\ UNCHANGED <<fileIdx, skipped>>
                 ELSE /\ pc' = AfterFile(Err("fix", FALSE))
                      /\ fileIdx' = fileIdx + 1
                      /\ skipped' = skipped + 1
              /\ UNCHANGED <<syncing, files, success, authErr, clientVars, log, lastLine,
                             btnVars, tapVars>>
    /\ UNCHANGED <<worldVars, onGarmin>>
    /\ UNCHANGED <<ssoVars, upVars>>

\* lines 204-206, 216: the outcomes of UploadFIT after which markSynced is called
MarksSynced(err) == err.kind = "nil" \/ err.dup

\* parseUploadResult lines 536-543 as the server sees it: UploadFIT returns
\* nil for an upload Garmin took in and ErrDuplicate for a 409, the answer
\* for an activity it already holds
Accepted(err) == err.kind = "nil" \/ err.kind = "duplicate"

\* lines 204-219: UploadFIT has returned.  written: markSynced could write
\* the marker (its error is dropped).  err goes out of scope.
RunUploaded ==
    /\ pc = "up_done"
    /\ \E written \in BOOLEAN :
          marked' = IF MarksSynced(upErr) /\ written
                    THEN marked \cup {files[fileIdx]} ELSE marked
    /\ success' = IF upErr.kind = "nil" THEN success + 1 ELSE success
    /\ skipped' = IF upErr.kind # "nil" /\ ~upErr.dup THEN skipped + 1 ELSE skipped
    /\ fileIdx' = fileIdx + 1
    /\ pc' = AfterFile(upErr)
    /\ upErr' = Nil
    /\ log' = <<>>
    /\ UNCHANGED <<now, mtime, cache1, cache2, syncing, files, authErr, clientOAuth1,
                   clientOAuth2, lastLine>>
    /\ UNCHANGED <<ssoVars, btnVars, tapVars>>
    /\ sentTok' = NoOAuth2

\* What Garmin Connect holds after the call RunUploaded looks at: the file
\* of an accepted upload is there.
GarminKeeps ==
    onGarmin' = IF Accepted(upErr) THEN onGarmin \cup {files[fileIdx]} ELSE onGarmin

\* The program at rest: no run, some files in the directory, a token cache
\* left by earlier runs (empty, complete or with one document missing).
SyncInit ==
    /\ now = StartTime
    /\ mtime \in [FileIds -> MtimeVals]
    /\ marked = {}
    /\ cache1 \in {0, 1}
    /\ cache2 \in {NoOAuth2, OAuth2Token(2, StartTime - 1, StartTime - 3),
                   OAuth2Token(2, StartTime, StartTime - 2)}
    /\ syncing = FALSE
    /\ pc = "idle"
    /\ files = <<>>
    /\ fileIdx = 0
    /\ success = 0
    /\ skipped = 0
    /\ clientOAuth1 = 0
    /\ clientOAuth2 = NoOAuth2
    /\ upErr = Nil
    /\ authErr = Nil
    /\ log = <<>>
    /\ lastLine = "none"
    /\ onGarmin = {}
    /\ lastURL = <<>>
    /\ ssoLog = <<>>
    /\ sentTok = NoOAuth2
    /\ running = 0
    /\ btnDisabled = FALSE
    /\ ignoredTap = FALSE

\* The program at rest with a complete token cache whose OAuth2 token
\* expires at StartTime, and every file one second old and unmarked.
RunsInit ==
    /\ now = StartTime
    /\ mtime = [f \in FileIds |-> StartTime - 1]
    /\ marked = {}
    /\ cache1 = 1
    /\ cache2 = OAuth2Token(2, StartTime, StartTime - 2)
    /\ syncing = FALSE
    /\ pc = "idle"
    /\ files = <<>>
    /\ fileIdx = 0
    /\ success = 0
    /\ skipped = 0
    /\ clientOAuth1 = 0
    /\ clientOAuth2 = NoOAuth2
    /\ upErr = Nil
    /\ authErr = Nil
    /\ log = <<>>
    /\ lastLine = "none"
    /\ onGarmin = {}
    /\ lastURL = <<>>
    /\ ssoLog = <<>>
    /\ sentTok = NoOAuth2
    /\ running = 0
    /\ btnDisabled = FALSE
    /\ ignoredTap = FALSE

\* A client at a call of UploadFIT: as NewClient made it, or holding the
\* tokens of a session with an OAuth2 token that is expired, that expires
\* within the second, or that is fresh; the cache holds the client's tokens
\* or nothing.
UploadInit ==
    /\ now = StartTime
    /\ mtime = [f \in FileIds |-> StartTime - 1]
    /\ marked = {}
    /\ clientOAuth2 \in {NoOAuth2, OAuth2Token(2, StartTime - 1, StartTime - 3),
                          OAuth2Token(2, StartTime, StartTime - 2),
                          OAuth2Token(2, StartTime + 2, StartTime)}
    /\ clientOAuth1 = IF clientOAuth2.isNil THEN 0 ELSE 1
    /\ \/ cache1 = clientOAuth1 /\ cache2 = clientOAuth2
       \/ cache1 = 0 /\ cache2 = NoOAuth2
    /\ syncing = TRUE
    /\ pc = "up_entry"
    /\ files = [i \in FileIds |-> i]
    /\ fileIdx = 1
    /\ success = 0
    /\ skipped = 0
    /\ upErr = Nil
    /\ authErr = Nil
    /\ log = <<>>
    /\ lastLine = "none"
    /\ onGarmin = {}
    /\ lastURL = <<>>
    /\ ssoLog = <<>>
    /\ sentTok = NoOAuth2
    /\ running = 1
    /\ btnDisabled = TRUE
    /\ ignoredTap = FALSE

\* No sync run and nothing to sync.
SyncIdle ==
    /\ now = StartTime
    /\ mtime = [f \in FileIds |-> StartTime - 1]
    /\ marked = {}
    /\ cache1 = 0
    /\ cache2 = NoOAuth2
    /\ syncing = FALSE
    /\ pc = "idle"
    /\ files = <<>>
    /\ fileIdx = 0
    /\ success = 0
    /\ skipped = 0
    /\ clientOAuth1 = 0
    /\ clientOAuth2 = NoOAuth2
    /\ upErr = Nil
    /\ authErr = Nil
    /\ log = <<>>
    /\ lastLine = "none"
    /\ onGarmin = {}
    /\ lastURL = <<>>
    /\ ssoLog = <<>>
    /\ sentTok = NoOAuth2
    /\ running = 0
    /\ btnDisabled = FALSE
    /\ ignoredTap = FALSE

(***************************************************************************)
(* garmin.Login: the handshake, one action per request.  A response is a   *)
(* status and what the code looks for in the body; a request may also end  *)
(* in a transport error.                                                   *)
(***************************************************************************)
\* Statuses the servers answer with.  Go's client follows the redirects
\* that carry a Location; a 304 reaches the caller as it is.
StatusVals == {200, 204, 304, 500}

\* A page title as the words between <title> and </title>; no words: the
\* title pattern (one character at least) does not match.
NoTitle == <<>>
TitleVals ==
    { NoTitle, <<"Success">>, <<"success">>, <<"Success", "!">>, <<"Sign", "In">>,
      <<"MFA">>, <<"Enter", "MFA", "Code">>, <<"Success", "MFA">> }

\* strings.Contains(title, word)
Contains(title, word) == \E i \in DOMAIN title : title[i] = word

\* History record of one handshake request: the step, whether a response
\* arrived, its status, and for the signin POST the title and whether the
\* body holds a ticket.
HandshakeEvent(step, ok, st, title, ticket) ==
    [ev |-> step, ok |-> ok, status |-> st, title |-> title, ticket |-> ticket]

\* ssoSession.get / ssoSession.post: the status check
ssoFails(st) == st >= 400

\* A URL is the path asked for and the number of redirects followed from
\* it; <<>> is the empty string.  resp.Request.URL of a response to reqURL
\* is reqURL itself or the place a redirect led to.
NoURL == <<>>
RequestURL(path) == <<path, 0>>
ResolvedVals(reqURL) == {reqURL, <<reqURL[1], 1>>}

\* lines 56-58 and 83-85: the Referer header of a request (NoURL: none)
RefererSent(useReferer) == IF useReferer /\ lastURL # NoURL THEN lastURL ELSE NoURL

\* Mutant: the session remembers the URL it asked for.
StoredURLOfRequest(reqURL, resolved) == reqURL

\* lines 64 and 91: s.lastURL = resp.Request.URL.String()
StoredURL(reqURL, resolved) == resolved

\* A request through the session: client.Do returns an error (answered
\* FALSE) or a response whose request URL is resolved.
ssoRequest(method, path, useReferer, answered, resolved) ==
    /\ ssoLog' = Append(ssoLog, [method |-> method, path |-> path,
                                 referer |-> RefererSent(useReferer),
                                 answered |-> answered,
                                 url |-> IF answered THEN resolved ELSE NoURL])
    /\ lastURL' = IF answered THEN StoredURL(RequestURL(path), resolved) ELSE lastURL

\* Mutant: a title that begins with Success is taken for a success.
classifyTitleByFirstWord(title, ticket) ==
    IF title = NoTitle THEN "no_title"
    ELSE IF title[1] = "Success" THEN (IF ticket THEN "nil" ELSE "ticket_not_found")
    ELSE IF Contains(title, "MFA") THEN "mfa_required"
    ELSE "login_failed"

\* Login lines 172-193: what the signin POST response leads to ("nil": the
\* handshake goes on)
classifyTitle(title, ticket) ==
    IF title = NoTitle THEN "no_title"
    ELSE IF Contains(title, "MFA") THEN "mfa_required"
    ELSE IF title # <<"Success">> THEN "login_failed"
    ELSE IF ~ticket THEN "ticket_not_found"
    ELSE "nil"

\* Mutant: the signin page is not fetched.
StepAfterSkipsSigninPage(p) ==
    CASE p = "lg_consumer" -> "lg_embed"
      [] p = "lg_embed" -> "lg_post"
      [] p = "lg_signin" -> "lg_post"
      [] p = "lg_post" -> "lg_oauth1"
      [] p = "lg_oauth1" -> "lg_exchange"
      [] OTHER -> "lg_done"

\* Login: the step that follows a step that returned no error
StepAfter(p) ==
    CASE p = "lg_consumer" -> "lg_embed"
      [] p = "lg_embed" -> "lg_signin"
      [] p = "lg_signin" -> "lg_post"
      [] p = "lg_post" -> "lg_oauth1"
      [] p = "lg_oauth1" -> "lg_exchange"
      [] OTHER -> "lg_done"

\* A step of the handshake short of the last: the request is recorded, and
\* Login goes on, or Client.Login returns the error (kind "nil": none).
HandshakeStep(e, kind) ==
    /\ log' = Append(log, e)
    /\ IF kind = "nil"
       THEN /\ pc' = StepAfter(pc)
            /\ UNCHANGED authErr
       ELSE /\ pc' = "lg_done"
            /\ authErr' = Err(kind, FALSE)
    /\ UNCHANGED <<worldVars, syncing, files, fileIdx, success, skipped, clientVars>>

\* fetchConsumer (lines 227-240), called at Login line 111.  decoded: the
\* body is the JSON of a consumer.
LoginFetchConsumer ==
    /\ pc = "lg_consumer"
    /\ \/ HandshakeStep(HandshakeEvent("consumer", FALSE, 0, NoTitle, FALSE),
                        "fetch_consumer")
       \/ \E st \in StatusVals, decoded \in BOOLEAN :
            HandshakeStep(HandshakeEvent("consumer", TRUE, st, NoTitle, FALSE),
                          IF st = 200 /\ decoded THEN "nil" ELSE "fetch_consumer")
    /\ UNCHANGED <<outVars, ssoVars, upVars, btnVars, tapVars>>

\* Login lines 137-141: GET /sso/embed
LoginEmbed ==
    /\ pc = "lg_embed"
    /\ \/ /\ HandshakeStep(HandshakeEvent("embed", FALSE, 0, NoTitle, FALSE), "sso_embed")
          /\ ssoRequest("GET", "embed", FALSE, FALSE, NoURL)
       \/ \E st \in StatusVals, u \in ResolvedVals(RequestURL("embed")) :
            /\ HandshakeStep(HandshakeEvent("embed", TRUE, st, NoTitle, FALSE),
                             IF ssoFails(st) THEN "sso_embed" ELSE "nil")
            /\ ssoRequest("GET", "embed", FALSE, TRUE, u)
    /\ UNCHANGED <<outVars, upVars, btnVars, tapVars>>

\* Login lines 143-153: GET /sso/signin.  csrf: the body holds a CSRF token.
LoginSigninPage ==
    /\ pc = "lg_signin"
    /\ \/ /\ HandshakeStep(HandshakeEvent("signin_get", FALSE, 0, NoTitle, FALSE),
                           "sso_signin_page")
          /\ ssoRequest("GET", "signin", TRUE, FALSE, NoURL)
       \/ \E st \in StatusVals, csrf \in BOOLEAN, u \in ResolvedVals(RequestURL("signin")) :
            /\ HandshakeStep(HandshakeEvent("signin_get", TRUE, st, NoTitle, FALSE),
                             IF ssoFails(st) THEN "sso_signin_page"
                             ELSE IF ~csrf THEN "csrf_not_found" ELSE "nil")
            /\ ssoRequest("GET", "signin", TRUE, TRUE, u)
    /\ UNCHANGED <<outVars, upVars, btnVars, tapVars>>

\* Login lines 155-193: POST /sso/signin, the title and the ticket
LoginSigninPost ==
    /\ pc = "lg_post"
    /\ \/ /\ HandshakeStep(HandshakeEvent("signin_post", FALSE, 0, NoTitle, FALSE),
                           "sso_login")
          /\ ssoRequest("POST", "signin", TRUE, FALSE, NoURL)
       \/ \E st \in StatusVals, title \in TitleVals, ticket \in BOOLEAN,
             u \in ResolvedVals(RequestURL("signin")) :
            /\ HandshakeStep(HandshakeEvent("signin_post", TRUE, st, title, ticket),
                             IF ssoFails(st) THEN "sso_login"
                             ELSE classifyTitle(title, ticket))
            /\ ssoRequest("POST", "signin", TRUE, TRUE, u)
    /\ UNCHANGED <<outVars, upVars, btnVars, tapVars>>

\* getOAuth1Token (lines 243-290), called at Login line 196.  parsed: the
\* body parses as a query string.
LoginOAuth1 ==
    /\ pc = "lg_oauth1"
    /\ \/ HandshakeStep(HandshakeEvent("oauth1", FALSE, 0, NoTitle, FALSE), "oauth1_token")
       \/ \E st \in StatusVals, parsed \in BOOLEAN :
            HandshakeStep(HandshakeEvent("oauth1", TRUE, st, NoTitle, FALSE),
                          IF st = 200 /\ parsed THEN "nil" ELSE "oauth1_token")
    /\ UNCHANGED <<outVars, ssoVars, upVars, btnVars, tapVars>>

\* exchangeOAuth2 (lines 292-355), called at Login line 202, and the rest of
\* Client.Login.  parsed: the body is JSON; d: its expires_in.
LoginExchange ==
    /\ pc = "lg_exchange"
    /\ \/ HandshakeStep(HandshakeEvent("exchange", FALSE, 0, NoTitle, FALSE),
                        "oauth2_exchange")
       \/ \E st \in StatusVals \ {200} :
            HandshakeStep(HandshakeEvent("exchange", TRUE, st, NoTitle, FALSE),
                          "oauth2_exchange")
       \/ HandshakeStep(HandshakeEvent("exchange", TRUE, 200, NoTitle, FALSE),
                        "oauth2_exchange")
       \/ \E d \in ExpiresInVals, saved1 \in BOOLEAN, saved2 \in BOOLEAN :
            /\ log' = Append(log, HandshakeEvent("exchange", TRUE, 200, NoTitle, FALSE))
            /\ ClientLoginOk(d, saved1, saved2)
            /\ pc' = "lg_done"
            /\ authErr' = Nil
            /\ UNCHANGED <<now, mtime, marked, syncing, files, fileIdx, success, skipped,
                           upErr>>
    /\ UNCHANGED <<outVars, ssoVars, upVars, btnVars, tapVars>>

\* A sync run at the call of client.Login: the scan found every file, Resume
\* returned an error (the cache lacks a document, or the refresh of its
\* expired OAuth2 failed) and email and password are filled in.
LoginInit ==
    /\ now = StartTime
    /\ mtime = [f \in FileIds |-> StartTime - 1]
    /\ marked = {}
    /\ cache1 \in {0, 1}
    /\ cache2 \in {NoOAuth2, OAuth2Token(2, StartTime - 1, StartTime - 3)}
    /\ syncing = TRUE
    /\ pc = "lg_consumer"
    /\ files = [f \in FileIds |-> f]
    /\ fileIdx = 1
    /\ success = 0
    /\ skipped = 0
    /\ authErr = Nil
    /\ clientOAuth1 = (IF cache1 # 0 /\ ~cache2.isNil THEN cache1 ELSE 0)
    /\ clientOAuth2 = (IF cache1 # 0 /\ ~cache2.isNil THEN cache2 ELSE NoOAuth2)
    /\ upErr = Nil
    /\ log = <<>>
    /\ lastLine = "none"
    /\ onGarmin = {}
    /\ lastURL = <<>>
    /\ ssoLog = <<>>
    /\ sentTok = NoOAuth2
    /\ running = 1
    /\ btnDisabled = TRUE
    /\ ignoredTap = FALSE

(***************************************************************************)
(* The specifications.                                                     *)
(***************************************************************************)
InitFix == FixInit /\ VerIdle /\ SyncIdle

FixNext == FixFitFile /\ UNCHANGED <<verVars, syncVars>>

SpecFix == InitFix /\ [][FixNext]_vars

InitVer == VerInit /\ FixIdle /\ SyncIdle

VerNext == findMostRecentFitFile /\ UNCHANGED <<fixVars, syncVars>>

SpecVer == InitVer /\ [][VerNext]_vars

InitSync == SyncInit /\ FixIdle /\ VerIdle

RestIdle == UNCHANGED <<fixVars, verVars>>

SyncNext ==
    \/ Tick /\ RestIdle
    \/ OnTapped /\ UNCHANGED tapVars /\ RestIdle
    \/ RunScan /\ RestIdle
    \/ RunResume /\ RestIdle
    \/ RunResumeRefresh /\ RestIdle
    \/ RunResumed /\ RestIdle
    \/ RunLogin /\ RestIdle
    \/ RunNextFile /\ RestIdle
    \/ UploadFITEntry /\ RestIdle
    \/ UploadFITPreRefresh /\ RestIdle
    \/ UploadFITRequest /\ RestIdle
    \/ UploadFITRetryRefresh /\ RestIdle
    \/ UploadFITRetry /\ RestIdle
    \/ RunUploaded /\ UNCHANGED onGarmin /\ RestIdle

SpecSync == InitSync /\ [][SyncNext]_vars

InitRuns == RunsInit /\ FixIdle /\ VerIdle

RunsNext ==
    \/ Tick /\ RestIdle
    \/ OnTapped /\ TapSeen /\ RestIdle
    \/ RunScan /\ RestIdle
    \/ RunResume /\ RestIdle
    \/ RunResumeRefresh /\ RestIdle
    \/ RunResumed /\ RestIdle
    \/ RunLogin /\ RestIdle
    \/ RunNextFile /\ RestIdle
    \/ UploadFITEntry /\ RestIdle
    \/ UploadFITPreRefresh /\ RestIdle
    \/ UploadFITRequest /\ RestIdle
    \/ UploadFITRetryRefresh /\ RestIdle
    \/ UploadFITRetry /\ RestIdle
    \/ RunUploaded /\ GarminKeeps /\ RestIdle

SpecRuns == InitRuns /\ [][RunsNext]_vars

\* The steps of the goroutine that are bound to end: work on local files,
\* and requests sent through a client with a Timeout (the upload client of
\* doUpload, 60 s).  The steps left out start with fetchConsumer, whose
\* http.Get uses the default client, which has no timeout: the token
\* refreshes (Resume, UploadFIT) and Login.  Taps and the clock are the
\* environment's.
BoundedStep ==
    \/ RunScan /\ RestIdle
    \/ RunResume /\ RestIdle
    \/ RunResumed /\ RestIdle
    \/ RunNextFile /\ RestIdle
    \/ UploadFITEntry /\ RestIdle
    \/ UploadFITRequest /\ RestIdle
    \/ UploadFITRetry /\ RestIdle
    \/ RunUploaded /\ GarminKeeps /\ RestIdle

\* The runs with the scheduler's guarantee: a goroutine that can take a
\* bounded step takes it.
SpecRunsFair == InitRuns /\ [][RunsNext]_vars /\ WF_vars(BoundedStep)

InitUpload == UploadInit /\ FixIdle /\ VerIdle

UploadNext ==
    \/ Tick /\ RestIdle
    \/ UploadFITEntry /\ RestIdle
    \/ UploadFITPreRefresh /\ RestIdle
    \/ UploadFITRequest /\ RestIdle
    \/ UploadFITRetryRefresh /\ RestIdle
    \/ UploadFITRetry /\ RestIdle

SpecUpload == InitUpload /\ [][UploadNext]_vars

InitLogin == LoginInit /\ FixIdle /\ VerIdle

LoginNext ==
    \/ Tick /\ RestIdle
    \/ LoginFetchConsumer /\ RestIdle
    \/ LoginEmbed /\ RestIdle
    \/ LoginSigninPage /\ RestIdle
    \/ LoginSigninPost /\ RestIdle
    \/ LoginOAuth1 /\ RestIdle
    \/ LoginExchange /\ RestIdle

SpecLogin == InitLogin /\ [][LoginNext]_vars

(***************************************************************************)
(* Properties of the corrector, checked under SpecFix.                     *)
(***************************************************************************)
FixDone == fixErr = "nil"
InAct == fixIn.act
OutAct == outFile.act

\* The real (non-sentinel) samples of one channel, as record indices.
RealIdx(recs, field, sentinel) == { i \in DOMAIN recs : recs[i][field] # sentinel }

RECURSIVE SumOver(_, _, _)
SumOver(recs, field, idx) ==
    IF idx = {} THEN 0
    ELSE LET i == CHOOSE j \in idx : TRUE
         IN  recs[i][field] + SumOver(recs, field, idx \ {i})

\* q is the truncating mean of the real samples of the channel, and the sum
\* stays within n * maxSample (which is why a 64-bit accumulator holds it).
IsTruncMean(q, recs, field, sentinel) ==
    LET idx == RealIdx(recs, field, sentinel)
        n == Cardinality(idx)
        sum == SumOver(recs, field, idx)
    IN  /\ n > 0
        /\ q * n <= sum
        /\ sum < (q + 1) * n
        /\ sum <= n * (sentinel - 1)

Absent(v, sentinel) == v = sentinel \/ v = 0

\* The average of one channel was replaced in session i by the last call.
Replaced(i, avg, field, sentinel) ==
    \/ OutAct.sessions[i][avg] # InAct.sessions[i][avg]
    \/ /\ Absent(InAct.sessions[i][avg], sentinel)
       /\ RealIdx(InAct.records, field, sentinel) # {}

\* C1: whenever fixFitFile replaces a session average (power, heart rate or
\* cadence), the new value is the truncating integer mean of exactly the
\* record samples of that channel that are not the sentinel of its width,
\* and the sum of those samples stays within the accumulator.
C1_AverageIsMeanOfRealSamples ==
    FixDone =>
        \A i \in DOMAIN OutAct.sessions :
            /\ Replaced(i, "avgPower", "power", 65535) =>
                   IsTruncMean(OutAct.sessions[i].avgPower, InAct.records, "power", 65535)
            /\ Replaced(i, "avgHeartRate", "heartRate", 255) =>
                   IsTruncMean(OutAct.sessions[i].avgHeartRate, InAct.records,
                               "heartRate", 255)
            /\ Replaced(i, "avgCadence", "cadence", 255) =>
                   IsTruncMean(OutAct.sessions[i].avgCadence, InAct.records,
                               "cadence", 255)

\* C1 witness: an absent average power was replaced by the mean of the real
\* samples of a record set that mixes a sentinel and a real sample.
C1_Witness ==
    /\ FixDone
    /\ \E i \in DOMAIN OutAct.sessions :
          /\ InAct.sessions[i].avgPower = 65535
          /\ OutAct.sessions[i].avgPower = 65533
    /\ \E j \in DOMAIN InAct.records : InAct.records[j].power = 65535
    /\ \E j \in DOMAIN InAct.records : InAct.records[j].power = 65533

\* C2: correction changes a session average only if its prior value is the
\* sentinel or zero and the channel has at least one real sample; otherwise
\* the field keeps its prior value.
C2_AverageChangedOnlyIfAbsentAndSampled ==
    FixDone =>
        \A i \in DOMAIN OutAct.sessions :
            /\ Len(OutAct.sessions) = Len(InAct.sessions)
            /\ OutAct.sessions[i].avgPower # InAct.sessions[i].avgPower =>
                   /\ InAct.sessions[i].avgPower \in {0, 65535}
                   /\ \E j \in DOMAIN InAct.records : InAct.records[j].power # 65535
            /\ OutAct.sessions[i].avgHeartRate # InAct.sessions[i].avgHeartRate =>
                   /\ InAct.sessions[i].avgHeartRate \in {0, 255}
                   /\ \E j \in DOMAIN InAct.records : InAct.records[j].heartRate # 255
            /\ OutAct.sessions[i].avgCadence # InAct.sessions[i].avgCadence =>
                   /\ InAct.sessions[i].avgCadence \in {0, 255}
                   /\ \E j \in DOMAIN InAct.records : InAct.records[j].cadence # 255

\* C2 witness: a valid average heart rate was kept although real samples
\* with another mean exist, and an absent average cadence was kept because
\* every cadence sample is the sentinel.
C2_Witness ==
    /\ FixDone
    /\ \E i \in DOMAIN OutAct.sessions :
          /\ InAct.sessions[i].avgHeartRate = 140
          /\ OutAct.sessions[i].avgHeartRate = 140
    /\ \E j \in DOMAIN InAct.records : InAct.records[j].heartRate = 151
    /\ \E i \in DOMAIN OutAct.sessions :
          /\ InAct.sessions[i].avgCadence = 255
          /\ OutAct.sessions[i].avgCadence = 255
    /\ InAct.records # <<>>
    /\ \A j \in DOMAIN InAct.records : InAct.records[j].cadence = 255

IsSpoofed(id) ==
    /\ id.manufacturer = 1
    /\ id.product = 3288
    /\ id.serialNumber = <<52198, 49066>>

\* C3: after correction the file-level identity and every device-identity
\* entry carry the same fixed spoof manufacturer, product and serial number.
C3_EveryIdentitySpoofed ==
    FixDone =>
        /\ IsSpoofed(OutAct.fileId)
        /\ Len(OutAct.deviceInfos) = Len(InAct.deviceInfos)
        /\ \A i \in DOMAIN OutAct.deviceInfos : IsSpoofed(OutAct.deviceInfos[i])

\* C3 witness: a file whose own identity and whose last device entry were
\* not the spoof identity has been corrected.
C3_Witness ==
    /\ FixDone
    /\ fixSrc = "source"
    /\ ~IsSpoofed(InAct.fileId)
    /\ Len(InAct.deviceInfos) = MaxDevices
    /\ ~IsSpoofed(InAct.deviceInfos[MaxDevices])

\* C4: after correction every record's temperature is the signed 8-bit
\* sentinel 0x7F, whatever it was and whatever the record's other samples.
C4_TemperatureStripped ==
    FixDone =>
        /\ Len(OutAct.records) = Len(InAct.records)
        /\ \A i \in DOMAIN OutAct.records : OutAct.records[i].temperature = 127

\* C4 witness: a record with a real temperature and no power and cadence
\* sample has been corrected.
C4_Witness ==
    /\ FixDone
    /\ \E i \in DOMAIN InAct.records :
          /\ InAct.records[i].temperature = 25
          /\ InAct.records[i].power = 65535
          /\ InAct.records[i].cadence = 255
          /\ OutAct.records[i].temperature = 127

\* C5: correcting an already-corrected activity leaves every record
\* temperature, every session average and every identity as the first
\* correction left them.
C5_Idempotent ==
    (FixDone /\ fixSrc = "output") =>
        /\ [i \in DOMAIN OutAct.records |-> OutAct.records[i].temperature]
             = [i \in DOMAIN InAct.records |-> InAct.records[i].temperature]
        /\ OutAct.sessions = InAct.sessions
        /\ OutAct.fileId = InAct.fileId
        /\ OutAct.deviceInfos = InAct.deviceInfos

\* C5 witness: the second correction of a file whose first correction
\* derived an average power and an average cadence of 0 from real samples.
C5_Witness ==
    /\ FixDone
    /\ fixSrc = "output"
    /\ srcFile.kind = "activity"
    /\ \E i \in DOMAIN InAct.sessions :
          /\ srcFile.act.sessions[i].avgPower = 65535
          /\ srcFile.act.sessions[i].avgCadence = 255
          /\ InAct.sessions[i].avgPower = 0
          /\ InAct.sessions[i].avgCadence = 0
          /\ OutAct.sessions[i].avgPower = 0


(***************************************************************************)
(* Properties of the version selection, checked under SpecVer.             *)
(***************************************************************************)
\* a is greater than b under left-to-right numeric comparison of the
\* components, a longer sequence beating its own proper prefix.
RECURSIVE NumericGreater(_, _)
NumericGreater(a, b) ==
    IF a = <<>> THEN FALSE
    ELSE IF b = <<>> THEN TRUE
    ELSE IF CmpValue(StripZeros(a[1]), StripZeros(b[1])) # 0
         THEN CmpValue(StripZeros(a[1]), StripZeros(b[1])) > 0
    ELSE NumericGreater(Tail(a), Tail(b))

\* C10: for every non-empty set of candidate files, findMostRecentFitFile
\* returns a file whose sequence of numeric version components is maximal:
\* no other candidate has a strictly greater sequence.
C10_ReturnsMaximalVersion ==
    verRet = "nil" =>
        /\ verPick \in 1..Len(verMatches)
        /\ \A j \in 1..Len(verMatches) :
               ~NumericGreater(verMatches[j], verMatches[verPick])


(***************************************************************************)
(* Properties of tokens, UploadFIT and the file loop, checked under        *)
(* SpecSync.                                                               *)
(***************************************************************************)
\* UploadFIT has returned to the file loop, which has not yet acted on it.
Returned == pc = "up_done"

UploadIdx == {i \in DOMAIN log : log[i].ev = "upload"}
RefreshIdx == {i \in DOMAIN log : log[i].ev = "refresh"}

\* The position in log of the first upload request of the call (0: none yet).
FirstUpload ==
    IF UploadIdx = {} THEN 0
    ELSE CHOOSE i \in UploadIdx : \A j \in UploadIdx : i <= j

First401 == FirstUpload # 0 /\ log[FirstUpload].ok /\ log[FirstUpload].status = 401

RefreshesAfterFirst == {i \in RefreshIdx : i > FirstUpload}
UploadsAfterFirst == {i \in UploadIdx : i > FirstUpload}

\* An upload attempt that did not end well: no response, a status of 400 or
\* more, or a body reporting failures.
Failing(e) == ~e.ok \/ e.status >= 400 \/ e.failures

\* C6: a token received at time T with expires_in = d stores T + d as its
\* expiry, and Expired() is true exactly from T + d on (false strictly
\* before, true at T + d and after).  The tokens looked at are the ones the
\* client obtained by an exchange during the behaviour.
C6_ExpiredExactlyFromStoredExpiry ==
    (~clientOAuth2.isNil /\ clientOAuth2.receivedAt >= StartTime) =>
        /\ clientOAuth2.expiresAt = clientOAuth2.receivedAt + clientOAuth2.expiresIn
        /\ Expired(clientOAuth2)
              <=> now >= clientOAuth2.receivedAt + clientOAuth2.expiresIn

\* C7 as stated: when the first upload request of a call was answered 401,
\* the call performs exactly one refresh after it and sends exactly one
\* further upload request, and a failing second response is returned as an
\* error.
C7_OneRefreshOneRetry ==
    (Returned /\ First401) =>
        /\ Cardinality(RefreshesAfterFirst) = 1
        /\ Cardinality(UploadsAfterFirst) = 1
        /\ Failing(log[Len(log)]) => upErr.kind # "nil"

\* C7 amended: after a first 401 exactly one refresh is attempted.  If it
\* succeeds exactly one further upload request follows and a failing second
\* response is returned as an error; if it fails no further request is sent
\* and the refresh error is returned.  At no point of the call is there a
\* second refresh after the 401 or a third upload request.
C7_OneRefreshThenRetryIfRefreshed ==
    First401 =>
        /\ Cardinality(RefreshesAfterFirst) <= 1
        /\ Cardinality(UploadsAfterFirst) <= 1
        /\ UploadsAfterFirst # {} =>
              /\ RefreshesAfterFirst = {FirstUpload + 1}
              /\ log[FirstUpload + 1].ok
              /\ UploadsAfterFirst = {FirstUpload + 2}
        /\ Returned =>
              /\ RefreshesAfterFirst = {FirstUpload + 1}
              /\ IF log[FirstUpload + 1].ok
                 THEN /\ UploadsAfterFirst = {FirstUpload + 2}
                      /\ Len(log) = FirstUpload + 2
                      /\ Failing(log[Len(log)]) => upErr.kind # "nil"
                 ELSE /\ UploadsAfterFirst = {}
                      /\ Len(log) = FirstUpload + 1
                      /\ upErr.kind = "refresh"

\* C7 witness: a call has returned whose first and second upload requests
\* were both answered 401, with one refresh in between; the second 401 came
\* back as an error.
C7_Witness ==
    /\ Returned
    /\ First401
    /\ Len(log) = FirstUpload + 2
    /\ log[FirstUpload + 1].ev = "refresh" /\ log[FirstUpload + 1].ok
    /\ log[Len(log)].ev = "upload" /\ log[Len(log)].ok /\ log[Len(log)].status = 401
    /\ upErr.kind = "http"

\* C8: an upload request answered 409 is the last thing the call does (no
\* refresh, no further upload request after it), and the call returns the
\* duplicate outcome.
C8_ConflictIsDuplicateAndFinal ==
    \A i \in UploadIdx :
        (log[i].ok /\ log[i].status = 409) =>
            /\ i = Len(log)
            /\ Returned
            /\ upErr.kind = "duplicate"

\* C8 witness: a call has returned the duplicate outcome after a 409 answer
\* to its retry (first request 401, refresh, second request 409).
C8_Witness ==
    /\ Returned
    /\ First401
    /\ Len(log) = FirstUpload + 2
    /\ log[Len(log)].ev = "upload" /\ log[Len(log)].ok /\ log[Len(log)].status = 409
    /\ upErr.kind = "duplicate"

\* C9: when the final upload response of a call has a 2xx status and a
\* non-empty failures list, UploadFIT returns an error and the file loop
\* neither counts the file as uploaded nor marks it synced.
C9_ReportedFailuresNeitherCountedNorMarked ==
    [][ ( /\ Returned
          /\ log # <<>>
          /\ log[Len(log)].ev = "upload" /\ log[Len(log)].ok
          /\ log[Len(log)].status >= 200 /\ log[Len(log)].status <= 299
          /\ log[Len(log)].failures )
        => ( /\ upErr.kind # "nil"
             /\ success' = success
             /\ marked' = marked ) ]_vars

(***************************************************************************)
(* Properties of Resume, checked under SpecSync.                           *)
(***************************************************************************)
\* Resume has returned to the sync run, which has not yet acted on it.
Resumed == pc = "resume_done"

\* The steps that are a token refresh.
Refreshing == pc \in {"resume_refresh", "up_pre_refresh", "up_retry_refresh"} /\ pc' # pc

\* C11: with a credential cache that lacks one of its two documents, or
\* both, Resume returns the no-session error, has made no network exchange
\* and has left the client's OAuth1 and OAuth2 unset.
C11_PartialCacheIsNoSession ==
    (Resumed /\ (cache1 = 0 \/ cache2.isNil)) =>
        /\ authErr.kind = "no_cached_session"
        /\ log = <<>>
        /\ clientOAuth1 = 0
        /\ clientOAuth2.isNil

\* C11 witness: Resume has returned its error on a cache that holds the
\* OAuth1 document but no OAuth2 document.
C11_Witness ==
    /\ Resumed
    /\ cache1 = 1 /\ cache2.isNil
    /\ authErr.kind = "no_cached_session"
    /\ clientOAuth1 = 0

\* C12: a token refresh, from Resume or from UploadFIT, changes neither the
\* cached OAuth1 document nor the client's OAuth1; of the credentials only
\* the OAuth2 document and the client's OAuth2 may change.
C12_RefreshKeepsOAuth1 ==
    [][ Refreshing => (cache1' = cache1 /\ clientOAuth1' = clientOAuth1) ]_vars

\* C12 witness: an UploadFIT call has refreshed and rewritten both the
\* client's OAuth2 and the OAuth2 document, while the client holds an OAuth1
\* that the cache lacks (the login of this run could not save it).
C12_Witness ==
    /\ pc = "up_retry"
    /\ log # <<>> /\ log[Len(log)].ev = "refresh" /\ log[Len(log)].ok
    /\ clientOAuth1 = 1 /\ cache1 = 0
    /\ cache2 = clientOAuth2 /\ clientOAuth2.receivedAt >= StartTime

\* C19: Resume on a cache holding both documents.  A cached OAuth2 that is
\* not expired ends Resume with success and no network exchange; an expired
\* one leads to exactly one refresh, made with the cached OAuth1; if the
\* refresh fails Resume returns an error, and the run then goes on to the
\* login with email and password (or ends where these are not filled in).
C19_ResumeRefreshesOnceIfExpired ==
    /\ [][ (pc = "resume" /\ pc' # pc /\ LoadTokensOk) =>
             /\ clientOAuth1' = cache1 /\ clientOAuth2' = cache2
             /\ log' = <<>>
             /\ IF Expired(cache2)
                THEN pc' = "resume_refresh"
                ELSE Resumed' /\ authErr' = Nil ]_vars
    /\ [][ (pc = "resume_refresh" /\ pc' # pc) =>
             /\ clientOAuth1 = cache1 /\ clientOAuth1 # 0
             /\ Resumed'
             /\ Len(log') = 1 /\ log'[1].ev = "refresh"
             /\ log'[1].ok <=> authErr' = Nil
             /\ ~log'[1].ok => authErr'.kind = "refresh_failed" ]_vars
    /\ [][ (Resumed /\ pc' # pc /\ authErr # Nil) => pc' \in {"login", "idle"} ]_vars

\* C19 witness: Resume has returned an error after one failed refresh of an
\* expired cached token.
C19_Witness ==
    /\ Resumed
    /\ log = <<RefreshEvent(FALSE)>>
    /\ authErr.kind = "refresh_failed"
    /\ clientOAuth1 = 1 /\ Expired(clientOAuth2)

(***************************************************************************)
(* Properties of the login handshake, checked under SpecLogin.             *)
(***************************************************************************)
\* Client.Login has returned.
LoggedIn == pc = "lg_done"

\* The requests of a Login run, in the order of the handshake.
HandshakeOrder ==
    <<"consumer", "embed", "signin_get", "signin_post", "oauth1", "exchange">>

\* The position in log of the signin POST (0: not sent yet).
PostIdx ==
    IF \E i \in DOMAIN log : log[i].ev = "signin_post"
    THEN CHOOSE i \in DOMAIN log : log[i].ev = "signin_post"
    ELSE 0

\* A request that was answered, and not with an HTTP error status.
Answered(e) == e.ok /\ e.status < 400

\* C13: the requests of a Login run are issued in the order consumer fetch,
\* embed GET, signin GET, signin POST, OAuth1 preauthorized GET, OAuth2
\* exchange POST, none skipped, none out of place; and a request is issued
\* only when every earlier one was answered without an HTTP error and, for
\* the signin POST, with the title Success and a ticket.
C13_HandshakeInFixedOrder ==
    /\ Len(log) <= Len(HandshakeOrder)
    /\ \A i \in DOMAIN log : log[i].ev = HandshakeOrder[i]
    /\ \A i \in DOMAIN log :
          i < Len(log) =>
              /\ Answered(log[i])
              /\ log[i].ev = "signin_post" =>
                    (log[i].title = <<"Success">> /\ log[i].ticket)

\* C13 witness: a Login run has sent all six requests and returned success.
C13_Witness ==
    /\ LoggedIn
    /\ authErr = Nil
    /\ Len(log) = 6
    /\ log[6].ev = "exchange"
    /\ ~clientOAuth2.isNil /\ clientOAuth2.receivedAt >= StartTime

\* C14: each request of the handshake is sent at most once per Login call,
\* and a request that meets a transport failure or is answered with a
\* status outside 200-299 is the last one: Login returns an error and no
\* later request is sent.
C14_NonSuccessStatusAborts ==
    /\ \A i, j \in DOMAIN log : log[i].ev = log[j].ev => i = j
    /\ \A i \in DOMAIN log :
          (~log[i].ok \/ log[i].status < 200 \/ log[i].status > 299) =>
              /\ i = Len(log)
              /\ LoggedIn
              /\ authErr # Nil

\* C15: the signin POST response is classified by its title.  Exactly
\* Success: the handshake goes on (to the token requests if the body holds a
\* ticket).  A title containing MFA: Login fails as unsupported
\* authentication.  Any other title, or none: Login fails as a failed login.
\* Token requests are sent only after the title Success with a ticket.
C15_TitleDecidesOutcome ==
    LET k == PostIdx
        title == log[k].title
        failedAs(kinds) == LoggedIn /\ Len(log) = k /\ authErr.kind \in kinds
    IN  (k # 0 /\ Answered(log[k])) =>
            /\ title = <<"Success">> =>
                  IF log[k].ticket
                  THEN ~(LoggedIn /\ Len(log) = k)
                  ELSE failedAs({"ticket_not_found"})
            /\ Contains(title, "MFA") => failedAs({"mfa_required"})
            /\ (title # <<"Success">> /\ ~Contains(title, "MFA")) =>
                  failedAs({"login_failed", "no_title"})
            /\ Len(log) > k => (title = <<"Success">> /\ log[k].ticket)

\* C15 witness: Login has failed as unsupported authentication on a signin
\* POST response whose title begins with Success and contains MFA.
C15_Witness ==
    /\ LoggedIn
    /\ PostIdx = Len(log) /\ PostIdx # 0
    /\ Answered(log[PostIdx])
    /\ log[PostIdx].title = <<"Success", "MFA">>
    /\ authErr.kind = "mfa_required"


(***************************************************************************)
(* The file loop of a sync run.                                            *)
(***************************************************************************)
UploadPcs == {"up_entry", "up_pre_refresh", "up_request", "up_retry_refresh",
              "up_retry", "up_done"}
InLoop == pc = "loop" \/ pc \in UploadPcs
PreSession == pc \in {"scan", "resume", "resume_refresh", "resume_done", "login"}

\* C16: once a session is established every file of the unsynced list is
\* processed exactly once in list order, whatever happened to earlier files.
\* The list has no file twice and does not change during the loop; the loop
\* starts at the first file; from the loop head with a file left, the run
\* either goes into UploadFIT for that file (correction succeeded) or moves
\* to the next file (correction failed); an UploadFIT call stays on its file,
\* is entered only from the loop head, and whatever it returns the run moves
\* to the next file; the run ends from the loop only when no file is left.
C16_EveryFileProcessedOnceInOrder ==
    /\ [](InLoop =>
            /\ fileIdx \in 1..(Len(files) + 1)
            /\ pc \in UploadPcs => fileIdx <= Len(files)
            /\ \A i, j \in DOMAIN files : files[i] = files[j] => i = j)
    /\ [][/\ (~InLoop /\ InLoop') => (pc' = "loop" /\ fileIdx' = 1)
          /\ (InLoop /\ pc' # "idle") => files' = files
          /\ (pc = "loop" /\ <<pc, fileIdx>>' # <<pc, fileIdx>>) =>
                IF fileIdx <= Len(files)
                THEN \/ pc' = "up_entry" /\ fileIdx' = fileIdx
                     \/ pc' = "loop" /\ fileIdx' = fileIdx + 1
                ELSE pc' = "idle"
          /\ (pc' = "up_entry" /\ pc # "up_entry") => pc = "loop"
          /\ (pc \in UploadPcs /\ pc' \in UploadPcs) => fileIdx' = fileIdx
          /\ (pc \in UploadPcs /\ pc' \notin UploadPcs) =>
                (pc = "up_done" /\ pc' = "loop" /\ fileIdx' = fileIdx + 1)
       ]_vars

\* C16 witness: the second file of a list of two goes into UploadFIT after
\* the first one was skipped on a failure.
C16_Witness ==
    /\ pc = "up_entry"
    /\ Len(files) = 2
    /\ fileIdx = 2
    /\ skipped = 1
    /\ success = 0

\* C17: when no session can be established (Resume fails, and credentials
\* are missing or Login fails) the run ends with no file corrected, uploaded
\* or marked: before the session is there no file is counted, no upload
\* request is sent and no marker is written; the step that ends the run on
\* the missing credentials or the failed login starts from such a state;
\* and the file loop is only ever run with a session.
C17_NoSessionNoFileTouched ==
    /\ [](PreSession =>
            /\ success = 0 /\ skipped = 0
            /\ fileIdx <= 1
            /\ UploadIdx = {})
    /\ [](InLoop => ~clientOAuth2.isNil)
    /\ [][/\ PreSession => (marked' = marked /\ pc' \notin UploadPcs)
          /\ (lastLine' \in {"enter_credentials", "login_failed"} /\ lastLine = "none") =>
                (PreSession /\ pc' = "idle" /\ marked' = marked)
       ]_vars

\* C17 witness: a run has ended on a failed login with an unsynced file in
\* the directory and no marker written.
C17_Witness ==
    /\ pc = "idle"
    /\ lastLine = "login_failed"
    /\ findUnsyncedFitFiles # <<>>
    /\ marked = {}

\* C18: a marker is written for a file if and only if its upload ended in
\* success or in a confirmed duplicate (HTTP 409): the step after UploadFIT
\* has returned marks the file exactly in these two cases, and no other step
\* of the program writes a marker.
C18_MarkedIffUploadedOrConflict ==
    [][IF pc = "up_done" /\ pc' # pc
       THEN marked' = IF Accepted(upErr) THEN marked \cup {files[fileIdx]} ELSE marked
       ELSE marked' = marked
      ]_vars

\* C20: a file whose upload was accepted (success or confirmed duplicate) in
\* one run is in no later scan result and is never uploaded again: the files
\* the run has still to process are not on Garmin Connect.
C20_AcceptedNeverListedAgain ==
    \A i \in DOMAIN files : i >= fileIdx => files[i] \notin onGarmin

(***************************************************************************)
(* The scan.                                                               *)
(***************************************************************************)
\* The files a scan has to return: not older than 30 days, no marker.
Unsynced == {f \in FileIds : mtime[f] >= now - ThirtyDays /\ f \notin marked}

IsScanResult(fs) ==
    /\ {fs[i] : i \in DOMAIN fs} = Unsynced
    /\ \A i, j \in DOMAIN fs : fs[i] = fs[j] => i = j
    /\ \A i, j \in DOMAIN fs : i < j => mtime[fs[i]] <= mtime[fs[j]]

\* C21: findUnsyncedFitFiles returns exactly the files that are not older
\* than 30 days and have no marker, each once, oldest first; this is so
\* whatever the clock, the modification times and the markers are, and the
\* list a run works on is that result at the time of the scan.
C21_ScanReturnsUnsyncedOldestFirst ==
    /\ [] IsScanResult(findUnsyncedFitFiles)
    /\ [][(pc = "scan" /\ pc' = "resume") => (files' = findUnsyncedFitFiles /\ IsScanResult(files'))
       ]_vars

\* C21 witness: a scan has returned file 2 before file 1, file 2 being
\* exactly 30 days old.
C21_Witness ==
    /\ pc = "resume"
    /\ files = <<2, 1>>
    /\ mtime[2] = now - ThirtyDays
    /\ mtime[1] > mtime[2]

(***************************************************************************)
(* More properties of the corrector, checked under SpecFix.                *)
(***************************************************************************)
\* C22: correction leaves alone what it does not own: every record keeps
\* its power, heart rate, cadence and timestamp, the laps are the same, every
\* session keeps its sport and start time, and the file written has the
\* protocol version of the file read.
C22_OnlyOwnedFieldsWritten ==
    FixDone =>
        /\ Len(OutAct.records) = Len(InAct.records)
        /\ \A i \in DOMAIN InAct.records :
              /\ OutAct.records[i].power = InAct.records[i].power
              /\ OutAct.records[i].heartRate = InAct.records[i].heartRate
              /\ OutAct.records[i].cadence = InAct.records[i].cadence
              /\ OutAct.records[i].timestamp = InAct.records[i].timestamp
        /\ OutAct.laps = InAct.laps
        /\ Len(OutAct.sessions) = Len(InAct.sessions)
        /\ \A i \in DOMAIN InAct.sessions :
              /\ OutAct.sessions[i].sport = InAct.sessions[i].sport
              /\ OutAct.sessions[i].startTime = InAct.sessions[i].startTime
        /\ outFile.protocol = fixIn.protocol

PoolEmpty(field, sentinel) == RealIdx(InAct.records, field, sentinel) = {}

\* C23: absent or partial data is not an error.  A file that decodes to an
\* activity is never rejected, whatever it lacks, and its correction is
\* defined: as many records, sessions and device entries as the input has,
\* every average a value of its field's width; when a channel has no real
\* sample (no record at all, or every sample the sentinel) no mean is
\* computed: every session keeps its average for that channel.
C23_AbsentDataIsNoError ==
    /\ IsActivity(fixIn) => fixErr \notin {"decode", "not_activity"}
    /\ (fixSrc = None /\ IsActivity(srcFile)) =>
          LET out == CorrectActivity(srcFile.act)
          IN  /\ Len(out.records) = Len(srcFile.act.records)
              /\ Len(out.sessions) = Len(srcFile.act.sessions)
              /\ Len(out.deviceInfos) = Len(srcFile.act.deviceInfos)
              /\ \A i \in DOMAIN out.sessions :
                    /\ out.sessions[i].avgPower \in 0..65535
                    /\ out.sessions[i].avgHeartRate \in 0..255
                    /\ out.sessions[i].avgCadence \in 0..255
    /\ FixDone =>
          \A i \in DOMAIN InAct.sessions :
              /\ PoolEmpty("power", 65535) =>
                    OutAct.sessions[i].avgPower = InAct.sessions[i].avgPower
              /\ PoolEmpty("heartRate", 255) =>
                    OutAct.sessions[i].avgHeartRate = InAct.sessions[i].avgHeartRate
              /\ PoolEmpty("cadence", 255) =>
                    OutAct.sessions[i].avgCadence = InAct.sessions[i].avgCadence

\* C23 witness: a file whose only record has no power and no cadence sample
\* and whose session lacks all three averages has been corrected.
C23_Witness ==
    /\ FixDone
    /\ fixSrc = "source"
    /\ Len(InAct.records) = 1
    /\ InAct.records[1].power = 65535 /\ InAct.records[1].cadence = 255
    /\ InAct.deviceInfos = <<>>
    /\ \E i \in DOMAIN InAct.sessions :
          /\ InAct.sessions[i].avgCadence = 255
          /\ OutAct.sessions[i].avgCadence = 255

\* C25: the sessions of a file share one pool built from all its records:
\* two sessions that lack the average of a channel get the same value for
\* it, the mean of the channel's real samples over all records, whatever the
\* time each session starts at.
C25_SessionsShareOnePool ==
    FixDone =>
        \A i, j \in DOMAIN InAct.sessions :
            /\ ( /\ Absent(InAct.sessions[i].avgPower, 65535)
                 /\ Absent(InAct.sessions[j].avgPower, 65535)
                 /\ ~PoolEmpty("power", 65535) ) =>
                    /\ OutAct.sessions[i].avgPower = OutAct.sessions[j].avgPower
                    /\ IsTruncMean(OutAct.sessions[i].avgPower, InAct.records,
                                   "power", 65535)
            /\ ( /\ Absent(InAct.sessions[i].avgHeartRate, 255)
                 /\ Absent(InAct.sessions[j].avgHeartRate, 255)
                 /\ ~PoolEmpty("heartRate", 255) ) =>
                    /\ OutAct.sessions[i].avgHeartRate = OutAct.sessions[j].avgHeartRate
                    /\ IsTruncMean(OutAct.sessions[i].avgHeartRate, InAct.records,
                                   "heartRate", 255)
            /\ ( /\ Absent(InAct.sessions[i].avgCadence, 255)
                 /\ Absent(InAct.sessions[j].avgCadence, 255)
                 /\ ~PoolEmpty("cadence", 255) ) =>
                    /\ OutAct.sessions[i].avgCadence = OutAct.sessions[j].avgCadence
                    /\ IsTruncMean(OutAct.sessions[i].avgCadence, InAct.records,
                                   "cadence", 255)

\* C25 witness: two sessions starting at different times, both without an
\* average power, have received the mean of a record before and a record
\* after the later start.
C25_Witness ==
    /\ FixDone
    /\ fixSrc = "source"
    /\ Len(InAct.sessions) = 2
    /\ InAct.sessions[1].startTime < InAct.sessions[2].startTime
    /\ Absent(InAct.sessions[1].avgPower, 65535)
    /\ Absent(InAct.sessions[2].avgPower, 65535)
    /\ Len(InAct.records) = 2
    /\ InAct.records[1].timestamp < InAct.sessions[2].startTime
    /\ InAct.records[2].timestamp >= InAct.sessions[2].startTime
    /\ InAct.records[1].power = 200
    /\ InAct.records[2].power = 65533
    /\ OutAct.sessions[1].avgPower = 32866
    /\ OutAct.sessions[2].avgPower = 32866

(***************************************************************************)
(* Client.Login and the token cache, checked under SpecLogin.              *)
(***************************************************************************)
\* C24: when Client.Login returns nil the client holds both tokens of the
\* handshake and both cache documents equal them; no other step of a Login
\* call, and in particular none that makes it return an error, changes the
\* client's tokens or a cache document.
C24_LoginStoresBothOrNothing ==
    [][IF pc # "lg_done" /\ pc' = "lg_done" /\ authErr' = Nil
       THEN /\ clientOAuth1' # 0
            /\ ~clientOAuth2'.isNil
            /\ cache1' = clientOAuth1'
            /\ cache2' = clientOAuth2'
       ELSE UNCHANGED <<clientOAuth1, clientOAuth2, cache1, cache2>>
      ]_vars

(***************************************************************************)
(* The Referer chain of the handshake, checked under SpecLogin.            *)
(***************************************************************************)
\* The URL of the most recent response the session has received.
LastResolved ==
    LET got == {i \in DOMAIN ssoLog : ssoLog[i].answered}
    IN  IF got = {} THEN NoURL
        ELSE ssoLog[CHOOSE i \in got : \A j \in got : j <= i].url

\* C26: the session's requests are the embed GET, the signin GET and the
\* signin POST; the embed GET carries no Referer, the signin GET carries the
\* resolved URL of the embed response, the signin POST the resolved URL of
\* the signin GET response, and s.lastURL is the resolved URL of the most
\* recent response received.
C26_RefererChaining ==
    /\ Len(ssoLog) <= 3
    /\ Len(ssoLog) >= 1 =>
          /\ ssoLog[1].method = "GET" /\ ssoLog[1].path = "embed"
          /\ ssoLog[1].referer = NoURL
    /\ Len(ssoLog) >= 2 =>
          /\ ssoLog[2].method = "GET" /\ ssoLog[2].path = "signin"
          /\ ssoLog[1].answered
          /\ ssoLog[2].referer = ssoLog[1].url
          /\ ssoLog[2].referer # NoURL
    /\ Len(ssoLog) >= 3 =>
          /\ ssoLog[3].method = "POST" /\ ssoLog[3].path = "signin"
          /\ ssoLog[2].answered
          /\ ssoLog[3].referer = ssoLog[2].url
          /\ ssoLog[3].referer # NoURL
    /\ lastURL = LastResolved

\* C26 witness: the embed GET and the signin GET were redirected, and the
\* signin POST, sent with the signin page's resolved URL as Referer, got no
\* response.
C26_Witness ==
    /\ Len(ssoLog) = 3
    /\ ssoLog[1].url = <<"embed", 1>>
    /\ ssoLog[2].referer = <<"embed", 1>>
    /\ ssoLog[2].url = <<"signin", 1>>
    /\ ssoLog[3].referer = <<"signin", 1>>
    /\ ~ssoLog[3].answered
    /\ lastURL = <<"signin", 1>>

(***************************************************************************)
(* One call of Client.UploadFIT, checked under SpecUpload.                 *)
(***************************************************************************)
RefreshesBeforeFirst == {i \in RefreshIdx : FirstUpload = 0 \/ i < FirstUpload}

\* C27: a call sends at most two upload requests and performs at most two
\* refreshes, at most one before the first request and at most one after
\* it; a second request is sent only after a first one answered 401 and a
\* refresh that succeeded, and it carries the token that refresh put into
\* the client: the refresh after the 401 stores the token of its exchange,
\* nothing changes it before the retry, and the retry sends it.
C27_TwoRequestsTwoRefreshesAtMost ==
    /\ [](/\ Cardinality(UploadIdx) <= 2
          /\ Cardinality(RefreshIdx) <= 2
          /\ Cardinality(RefreshesBeforeFirst) <= 1
          /\ Cardinality(RefreshesAfterFirst) <= 1
          /\ UploadsAfterFirst # {} =>
                /\ First401
                /\ RefreshesAfterFirst = {FirstUpload + 1}
                /\ log[FirstUpload + 1].ok
                /\ UploadsAfterFirst = {FirstUpload + 2}
                /\ sentTok = clientOAuth2)
    /\ [][/\ (pc = "up_retry_refresh" /\ pc' = "up_retry") =>
                \E d \in ExpiresInVals : clientOAuth2' = exchangeOAuth2(d)
          /\ pc = "up_retry" =>
                /\ clientOAuth2' = clientOAuth2
                /\ pc' # pc => sentTok' = clientOAuth2
       ]_vars

\* C27 witness: a call has returned after a refresh on entry, a request
\* answered 401, a second refresh that could not be saved, and a retry that
\* carried the token of that refresh.
C27_Witness ==
    /\ Returned
    /\ Cardinality(UploadIdx) = 2
    /\ Cardinality(RefreshIdx) = 2
    /\ sentTok = clientOAuth2
    /\ sentTok # cache2

\* C28: UploadFIT sends no upload request without a token or with a token
\* it found expired.  Without an OAuth2 token it returns "not authenticated"
\* with no request and no refresh; with a token expired on entry it goes to
\* a refresh, with any other token to the first request; a failed refresh
\* on entry ends the call with an error and no upload request.
C28_NoRequestUnauthenticatedOrExpired ==
    /\ [](/\ clientOAuth2.isNil =>
                /\ pc \in {"up_entry", "up_done"}
                /\ log = <<>>
                /\ Returned => upErr.kind = "not_authenticated"
          /\ (Returned /\ upErr.kind = "not_authenticated") => log = <<>>
          /\ pc \in {"up_entry", "up_pre_refresh"} => log = <<>>
          /\ (log # <<>> /\ log[1].ev = "refresh") =>
                IF log[1].ok
                THEN FirstUpload \in {0, 2}
                ELSE /\ Len(log) = 1
                     /\ Returned
                     /\ upErr.kind = "refresh")
    /\ [][(pc = "up_entry" /\ pc' # pc) =>
              pc' = IF clientOAuth2.isNil THEN "up_done"
                    ELSE IF Expired(clientOAuth2) THEN "up_pre_refresh"
                    ELSE "up_request"
       ]_vars

\* C28 witness: a call on a client whose token was expired has returned an
\* error after a failed refresh, no upload request sent.
C28_Witness ==
    /\ Returned
    /\ Len(log) = 1
    /\ log[1].ev = "refresh" /\ ~log[1].ok
    /\ upErr.kind = "refresh"
    /\ Expired(clientOAuth2)
    /\ sentTok = NoOAuth2

IsRefreshStep == Len(log') = Len(log) + 1 /\ log'[Len(log')].ev = "refresh"

\* C29: a failed refresh changes nothing: the client's tokens and both
\* cache documents are what they were; a refresh that succeeds replaces the
\* client's OAuth2 token by the token of the exchange, whole.
C29_FailedRefreshChangesNothing ==
    [][IsRefreshStep =>
          IF log'[Len(log')].ok
          THEN /\ \E d \in ExpiresInVals :
                     clientOAuth2' = [isNil |-> FALSE, expiresIn |-> d,
                                      expiresAt |-> now + d, receivedAt |-> now]
               /\ cache2' \in {cache2, clientOAuth2'}
          ELSE UNCHANGED <<clientOAuth1, clientOAuth2, cache1, cache2>>
      ]_vars

\* C29 witness: the refresh after a 401 has failed and the client still
\* holds the token it sent, the cache the same token.
C29_Witness ==
    /\ Returned
    /\ First401
    /\ Len(log) = FirstUpload + 1
    /\ ~log[Len(log)].ok
    /\ ~clientOAuth2.isNil
    /\ clientOAuth2 = sentTok
    /\ cache2 = sentTok

\* C30: UploadFIT returns nil only when the last upload response has a
\* status in 200-299 and reports no failures; a last response with any other
\* status gives an error, the duplicate error for 409 and an upload failure
\* for the rest.
C30_SuccessOnly2xxWithoutFailures ==
    (Returned /\ UploadIdx # {} /\ log[Len(log)].ev = "upload" /\ log[Len(log)].ok) =>
        LET e == log[Len(log)]
        IN  /\ upErr.kind = "nil" => (e.status \in 200..299 /\ ~e.failures)
            /\ e.status \notin 200..299 =>
                  upErr.kind = IF e.status = 409 THEN "duplicate" ELSE "http"

(***************************************************************************)
(* The sync button, checked under SpecRuns.                                *)
(***************************************************************************)
\* C31: at most one sync run is active at any time.  No more than one
\* goroutine of the button is alive, one is alive exactly while the flag is
\* set, and a goroutine is started only by a tap that finds the flag clear
\* and no run in progress; a step taken while the flag is set starts none,
\* and a tap that returns early leaves the run where it is.
C31_AtMostOneRunActive ==
    /\ [](/\ running \in {0, 1}
          /\ syncing <=> running = 1
          /\ pc # "idle" <=> running = 1)
    /\ [][/\ running' > running =>
                /\ ~syncing /\ running = 0 /\ pc = "idle"
                /\ running' = 1 /\ syncing' /\ pc' = "scan"
          /\ syncing => running' <= running
          /\ (syncing /\ ~ignoredTap /\ ignoredTap') =>
                UNCHANGED <<worldVars, runVars, clientVars, histVars, btnVars>>
       ]_vars

\* C31 witness: the button has been tapped while the run was waiting for
\* the answer to an upload request; the run is still there, alone.
C31_Witness ==
    /\ ignoredTap
    /\ pc = "up_request"
    /\ syncing
    /\ running = 1
    /\ fileIdx = 2

ExitLines ==
    {"set_directory", "scan_failed", "all_synced", "enter_credentials",
     "login_failed", "sync_complete"}

\* C32: every sync run ends, and however it ends the flag is cleared and
\* the button enabled again.  A run in progress leads to a state with no
\* run, the flag clear and the button enabled; the step that ends a run
\* writes one of the six closing lines, clears the flag and enables the
\* button; and at rest a tap starts a run.
C32_EveryRunEndsAndFreesButton ==
    /\ [](pc = "idle" => (~syncing /\ ~btnDisabled /\ running = 0))
    /\ [][(pc # "idle" /\ pc' = "idle") =>
              (lastLine' \in ExitLines /\ ~syncing' /\ ~btnDisabled')]_vars
    /\ [][(pc = "idle" /\ pc' # "idle") => (pc' = "scan" /\ syncing' /\ btnDisabled')]_vars
    /\ (syncing ~> (pc = "idle" /\ ~syncing /\ ~btnDisabled))

=============================================================================
